---- MODULE Spec2Model ----
(***************************************************************************)
(* A model of PageUp (src/script.js): the chunker EPUBParser.chunkText,    *)
(* the reflow position mapper TextReels.changeTextDensity and the          *)
(* pagination state machine of TextReels.                                  *)
(*                                                                         *)
(* Strings.  A JavaScript string is held as its run-length encoding: a     *)
(* sequence of runs [c |-> character, n |-> count] with n >= 1 in which    *)
(* neighbouring runs carry different characters.  Every string has exactly *)
(* one such encoding, so equality of encodings is equality of strings, and *)
(* the string operations below are the operations of the code computed on  *)
(* runs instead of on single characters.                                   *)
(***************************************************************************)
EXTENDS Integers, Sequences, FiniteSets, TLC

\* null where a string or a title is expected
Null == "null"
\* null where a chapter number is expected (a real number is never negative)
NoNumber == -1

Min(S) == CHOOSE x \in S : \A y \in S : x <= y
Max(S) == CHOOSE x \in S : \A y \in S : x >= y

Run(c, n) == [c |-> c, n |-> n]

\* a + b on strings
Cat(a, b) ==
    IF a = <<>> THEN b
    ELSE IF b = <<>> THEN a
    ELSE IF a[Len(a)].c = b[1].c
         THEN SubSeq(a, 1, Len(a) - 1) \o <<Run(b[1].c, a[Len(a)].n + b[1].n)>> \o Tail(b)
         ELSE a \o b

\* the strings of ss joined, by halves
RECURSIVE CatAll(_)
CatAll(ss) ==
    IF ss = <<>> THEN <<>>
    ELSE IF Len(ss) = 1 THEN ss[1]
    ELSE LET h == Len(ss) \div 2
         IN Cat(CatAll(SubSeq(ss, 1, h)), CatAll(SubSeq(ss, h + 1, Len(ss))))

\* A string literal from its characters.
RECURSIVE Lit(_)
Lit(chars) == IF chars = <<>> THEN <<>> ELSE Cat(<<Run(chars[1], 1)>>, Lit(Tail(chars)))

\* c repeated n times
Rep(c, n) == IF n = 0 THEN <<>> ELSE <<Run(c, n)>>

\* s.length
RECURSIVE Length(_)
Length(s) ==
    IF s = <<>> THEN 0
    ELSE IF Len(s) = 1 THEN s[1].n
    ELSE LET h == Len(s) \div 2
         IN Length(SubSeq(s, 1, h)) + Length(SubSeq(s, h + 1, Len(s)))

\* s.substring(from) where from is a run boundary: runs i..end
From(s, i) == SubSeq(s, i, Len(s))

IsWS(c) == c \in {" ", "\n", "\t", "\r"}
IsTerm(c) == c \in {".", "!", "?"}
\* the double quote and the backtick, which a TLA+ string cannot hold
DQuote == "dquote"
BackTick == "backtick"
IsCloser(c) == c \in {"]", ")", "'", DQuote, BackTick}
IsLineTerm(c) == c \in {"\n", "\r"}

\* The first run index >= i that is in stop (Len(s)+1 when none is).
FirstIn(s, i, stop) ==
    LET later == {k \in stop : k >= i}
    IN IF later = {} THEN Len(s) + 1 ELSE Min(later)

\* The first run index >= i past the non-terminators, terminators, closers, white space.
SkipNonTerm(s, i) == FirstIn(s, i, {k \in 1..Len(s) : IsTerm(s[k].c)})
SkipTerm(s, i) == FirstIn(s, i, {k \in 1..Len(s) : ~IsTerm(s[k].c)})
SkipCloser(s, i) == FirstIn(s, i, {k \in 1..Len(s) : ~IsCloser(s[k].c)})
SkipWS(s, i) == FirstIn(s, i, {k \in 1..Len(s) : ~IsWS(s[k].c)})

\* s.trim()
Trim(s) ==
    LET keep == {k \in 1..Len(s) : ~IsWS(s[k].c)}
    IN IF keep = {} THEN <<>> ELSE SubSeq(s, Min(keep), Max(keep))

\* s.replace(/<[^>]*>/g, ''): each match runs from a < to the first > after it.
RECURSIVE StripTags(_)
StripTags(s) ==
    LET lt == {i \in 1..Len(s) : s[i].c = "<"}
    IN IF lt = {} THEN s
       ELSE LET i == Min(lt)
                gt == {j \in (i + 1)..Len(s) : s[j].c = ">"}
            IN IF gt = {} THEN s
               ELSE LET j == Min(gt)
                        rest == Rep(">", s[j].n - 1) \o From(s, j + 1)
                    IN Cat(SubSeq(s, 1, i - 1), StripTags(rest))

\* s.endsWith(' ')
EndsWithSpace(s) == s # <<>> /\ s[Len(s)].c = " "

\* hay.includes(needle)
Includes(hay, needle) ==
    LET k == Len(needle)
    IN IF k = 0 THEN TRUE
       ELSE IF k = 1
            THEN \E i \in 1..Len(hay) : hay[i].c = needle[1].c /\ hay[i].n >= needle[1].n
            ELSE \E i \in 1..(Len(hay) - k + 1) :
                    /\ hay[i].c = needle[1].c /\ hay[i].n >= needle[1].n
                    /\ \A d \in 1..(k - 2) : hay[i + d] = needle[1 + d]
                    /\ hay[i + k - 1].c = needle[k].c /\ hay[i + k - 1].n >= needle[k].n

\* s.substring(0, m)
RECURSIVE Prefix(_, _)
Prefix(s, m) ==
    IF s = <<>> \/ m <= 0 THEN <<>>
    ELSE IF s[1].n >= m THEN <<Run(s[1].c, m)>>
    ELSE <<s[1]>> \o Prefix(Tail(s), m - s[1].n)

\* s.lastIndexOf(' '), -1 when s holds no space
RECURSIVE LastIndexOfSpace(_)
LastIndexOfSpace(s) ==
    IF s = <<>> THEN -1
    ELSE IF s[Len(s)].c = " " THEN Length(s) - 1
    ELSE LastIndexOfSpace(SubSeq(s, 1, Len(s) - 1))

\* text.match(/[^.!?]+[.!?]+[closers]*\s*|.+$/g), scanning from run i.  The
\* first alternative needs a non-terminator followed, after the whole run of
\* non-terminators, by a terminator; the second takes the rest of the string
\* when it holds no line terminator; where neither matches the scan moves on
\* and the characters passed over belong to no match.
RECURSIVE MatchSentences(_, _)
MatchSentences(s, i) ==
    IF i > Len(s) THEN <<>>
    ELSE LET j == SkipNonTerm(s, i)
         IN IF j > i /\ j <= Len(s)
            THEN LET k == SkipTerm(s, j)
                     m == SkipCloser(s, k)
                     e == SkipWS(s, m)
                 IN <<SubSeq(s, i, e - 1)>> \o MatchSentences(s, e)
            ELSE IF \A x \in i..Len(s) : ~IsLineTerm(s[x].c)
                 THEN <<From(s, i)>>
                 ELSE MatchSentences(s, i + 1)

\* text.split(/\s+/)
RECURSIVE SplitWords(_)
SplitWords(s) ==
    LET ws == {i \in 1..Len(s) : IsWS(s[i].c)}
    IN IF ws = {} THEN <<s>>
       ELSE LET i == Min(ws)
                j == SkipWS(s, i)
            IN <<SubSeq(s, 1, i - 1)>> \o SplitWords(From(s, j))

\* The runs of s one by one, joined again: the encoding of the same string.
Norm(s) == CatAll([i \in 1..Len(s) |-> <<s[i]>>])

\* s.replace(/>\s+</g, '><'): white space standing between a > and a < goes.
RemoveSpaceBetweenTags(s) ==
    LET Between(k) ==
            LET lo == {i \in 1..(k - 1) : ~IsWS(s[i].c)}
                hi == {i \in (k + 1)..Len(s) : ~IsWS(s[i].c)}
            IN lo # {} /\ hi # {} /\ s[Max(lo)].c = ">" /\ s[Min(hi)].c = "<"
    IN Norm(SelectSeq([k \in 1..Len(s) |-> IF IsWS(s[k].c) /\ Between(k) THEN Run(s[k].c, 0) ELSE s[k]],
                      LAMBDA r : r.n > 0))

\* s.replace(/<\/p><p/g, '</p>\n<p'): a newline after each </p> that a <p follows.
SeparateParagraphs(s) ==
    LET At(k) == /\ k + 5 <= Len(s)
                 /\ s[k].c = "<" /\ s[k + 1] = Run("/", 1) /\ s[k + 2] = Run("p", 1)
                 /\ s[k + 3] = Run(">", 1) /\ s[k + 4] = Run("<", 1) /\ s[k + 5].c = "p"
    IN CatAll([k \in 1..Len(s) |->
                  IF k >= 4 /\ At(k - 3) THEN <<s[k], Run("\n", 1)>> ELSE <<s[k]>>])

(***************************************************************************)
(* Markup.  A chapter's content is held as the nodes DOMParser yields for  *)
(* it under body: [tag, inner], inner being the node's innerHTML (for a    *)
(* text node, tag "#text", its text).  ContentHtml writes the nodes back   *)
(* as the markup string EPUBParser.extractFormattedText emitted for them.  *)
(***************************************************************************)
TagName(t) ==
    CASE t = "p"   -> Lit(<<"p">>)
      [] t = "div" -> Lit(<<"d", "i", "v">>)
      [] t = "h1"  -> Lit(<<"h", "1">>)
      [] t = "h2"  -> Lit(<<"h", "2">>)
      [] t = "em"  -> Lit(<<"e", "m">>)
      [] t = "br"  -> Lit(<<"b", "r">>)
      [] t = "h3"  -> Lit(<<"h", "3">>)
      [] t = "h4"  -> Lit(<<"h", "4">>)
      [] t = "h5"  -> Lit(<<"h", "5">>)
      [] t = "h6"  -> Lit(<<"h", "6">>)
      [] t = "strong" -> Lit(<<"s", "t", "r", "o", "n", "g">>)
      [] t = "span"   -> Lit(<<"s", "p", "a", "n">>)
      [] t = "a"      -> Lit(<<"a">>)
      [] t = "small"  -> Lit(<<"s", "m", "a", "l", "l">>)
      [] t = "sub"    -> Lit(<<"s", "u", "b">>)
      [] t = "sup"    -> Lit(<<"s", "u", "p">>)
      [] t = "u"      -> Lit(<<"u">>)
      [] t = "mark"   -> Lit(<<"m", "a", "r", "k">>)

OpenTag(t) == CatAll(<<Lit(<<"<">>), TagName(t), Lit(<<">">>)>>)
CloseTag(t) == CatAll(<<Lit(<<"<", "/">>), TagName(t), Lit(<<">">>)>>)

\* `<${tag}>${content}</${tag}>`
Wrap(t, content) == CatAll(<<OpenTag(t), content, CloseTag(t)>>)

\* what extractFormattedText emits for one child node without class or style
NodeHtml(node) ==
    CASE node.tag = "#text" -> Cat(node.inner, Lit(<<" ">>))
      [] node.tag = "br" -> OpenTag("br")
      [] node.tag = "em" -> Wrap("em", node.inner)
      [] OTHER -> CatAll(<<Lit(<<"<">>), TagName(node.tag), Lit(<<" ", " ", ">">>),
                           node.inner, CloseTag(node.tag)>>)

\* chapter.content
ContentHtml(nodes) == CatAll([i \in 1..Len(nodes) |-> NodeHtml(nodes[i])])

(***************************************************************************)
(* EPUBParser.chunkText                                                    *)
(***************************************************************************)
\* processNode on one child of body: a p or div with text becomes an element
\* and its children are not visited; the children of any other node hold no
\* p or div here, so visiting them adds nothing.
ProcessNode(node) ==
    LET textOnly == Trim(StripTags(node.inner))
    IN IF node.tag \in {"p", "div"} /\ Length(textOnly) > 0
       THEN <<[tag |-> node.tag, html |-> Wrap(node.tag, Trim(node.inner)),
               textLength |-> Length(textOnly)]>>
       ELSE <<>>

RECURSIVE ProcessNodes(_)
ProcessNodes(nodes) ==
    IF nodes = <<>> THEN <<>>
    ELSE (IF nodes[1].tag = "#text" THEN <<>> ELSE ProcessNode(nodes[1]))
         \o ProcessNodes(Tail(nodes))

\* allElements of one chapter, with the fallback that wraps the whole content
AllElements(chapter) ==
    LET found == ProcessNodes(chapter.content)
        content == ContentHtml(chapter.content)
        textOnly == Trim(StripTags(content))
    IN IF found # <<>> THEN found
       ELSE IF Length(textOnly) > 0
            THEN <<[tag |-> "p", html |-> Wrap("p", content), textLength |-> Length(textOnly)]>>
            ELSE <<>>

\* splitBySentences
SplitBySentences(text) ==
    LET m == MatchSentences(text, 1)
        sentences == IF m = <<>> THEN <<text>> ELSE m
    IN SelectSeq(sentences, LAMBDA x : Length(Trim(x)) > 0)

\* One round of the sentence loop of splitLongParagraph; acc = [parts, currentPart].
PackSentence(acc, sentence, tag, maxChunkSize) ==
    LET sentenceTrimmed == Trim(sentence)
    IN IF Length(acc.currentPart) > 0
          /\ Length(acc.currentPart) + Length(sentenceTrimmed) + 1 > maxChunkSize
       THEN [parts |-> IF Trim(acc.currentPart) # <<>>
                       THEN Append(acc.parts, Wrap(tag, Trim(acc.currentPart)))
                       ELSE acc.parts,
             currentPart |-> sentenceTrimmed]
       ELSE [parts |-> acc.parts,
             currentPart |-> CatAll(<<acc.currentPart,
                                      IF acc.currentPart # <<>> THEN Lit(<<" ">>) ELSE <<>>,
                                      sentenceTrimmed>>)]

\* One round of the word loop of splitLongParagraph.
PackWord(acc, word, tag, maxChunkSize) ==
    IF Length(acc.currentPart) + Length(word) + 1 > maxChunkSize /\ Length(acc.currentPart) > 0
    THEN [parts |-> Append(acc.parts, Wrap(tag, Trim(acc.currentPart))), currentPart |-> word]
    ELSE [parts |-> acc.parts,
          currentPart |-> CatAll(<<acc.currentPart,
                                   IF acc.currentPart # <<>> THEN Lit(<<" ">>) ELSE <<>>,
                                   word>>)]

RECURSIVE PackSentences(_, _, _, _)
PackSentences(acc, sentences, tag, maxChunkSize) ==
    IF sentences = <<>> THEN acc
    ELSE PackSentences(PackSentence(acc, sentences[1], tag, maxChunkSize),
                       Tail(sentences), tag, maxChunkSize)

RECURSIVE PackWords(_, _, _, _)
PackWords(acc, words, tag, maxChunkSize) ==
    IF words = <<>> THEN acc
    ELSE PackWords(PackWord(acc, words[1], tag, maxChunkSize), Tail(words), tag, maxChunkSize)

\* the parts a loop leaves: its parts and, when not blank, the remaining one
PartsOf(acc, tag) ==
    IF Trim(acc.currentPart) # <<>>
    THEN Append(acc.parts, Wrap(tag, Trim(acc.currentPart)))
    ELSE acc.parts

\* Does splitLongParagraph fall back to words for these sentence parts?
NeedsWordSplit(parts, maxChunkSize) ==
    Len(parts) = 0 \/ (Len(parts) = 1 /\ Length(StripTags(parts[1])) > maxChunkSize)

\* splitLongParagraph
SplitLongParagraph(element, maxChunkSize) ==
    LET textOnly == StripTags(element.html)
        tag == element.tag
        empty == [parts |-> <<>>, currentPart |-> <<>>]
        bySentence == PartsOf(PackSentences(empty, SplitBySentences(textOnly),
                                            tag, maxChunkSize), tag)
        byWord == PartsOf(PackWords(empty, SplitWords(textOnly), tag, maxChunkSize), tag)
        parts == IF NeedsWordSplit(bySentence, maxChunkSize) THEN byWord ELSE bySentence
    IN IF Length(textOnly) <= maxChunkSize THEN <<element.html>>
       ELSE IF Len(parts) > 0 THEN parts ELSE <<element.html>>

\* chunks.push({id: chunkId++, title: ..., text}) and what follows it in the loop
PushChunk(ck, text) ==
    [ck EXCEPT !.chunks = Append(@, [id |-> ck.chunkId,
                                      title |-> IF ck.isFirstChunkOfChapter
                                                THEN ck.currentTitle ELSE Null,
                                      chapterIndex |-> ck.chapterIndex,
                                      actualChapterNumber |-> ck.chapterNumberToUse,
                                      chapterTitle |-> ck.chapterTitle,
                                      text |-> text]),
               !.chunkId = @ + 1]

\* the test before a block or part: is the buffer saved first?
MustFlush(currentChunk, textLength, maxChunkSize) ==
    Length(currentChunk) > 0 /\ Length(currentChunk) + textLength > maxChunkSize

\* a save of the buffer after which the next page of the chapter has the title again
FlushKeepingTitle(ck) ==
    [PushChunk(ck, Trim(ck.currentChunk)) EXCEPT !.currentChunk = <<>>]

\* the buffer is saved as a page and emptied; later pages have no title
Flush(ck) ==
    [PushChunk(ck, Trim(ck.currentChunk)) EXCEPT !.currentChunk = <<>>,
                                                 !.isFirstChunkOfChapter = FALSE]

\* the else branch of the element loop: a paragraph within the budget
AddParagraph(ck, element, maxChunkSize) ==
    LET paraTextLength == Length(Trim(StripTags(element.html)))
        ck1 == IF MustFlush(ck.currentChunk, paraTextLength, maxChunkSize) THEN Flush(ck) ELSE ck
    IN [ck1 EXCEPT !.currentChunk = Cat(@, element.html)]

\* one round of paragraphParts.forEach
AddPart(ck, part, maxChunkSize) ==
    LET partText == Trim(StripTags(part))
        ck1 == IF MustFlush(ck.currentChunk, Length(partText), maxChunkSize) THEN Flush(ck) ELSE ck
        spaced == IF Length(ck1.currentChunk) > 0 /\ ~EndsWithSpace(ck1.currentChunk)
                  THEN Cat(ck1.currentChunk, Lit(<<" ">>))
                  ELSE ck1.currentChunk
    IN [ck1 EXCEPT !.currentChunk = Cat(spaced, part)]

RECURSIVE AddParts(_, _, _)
AddParts(ck, parts, maxChunkSize) ==
    IF parts = <<>> THEN ck
    ELSE AddParts(AddPart(ck, parts[1], maxChunkSize), Tail(parts), maxChunkSize)

\* Is the element too long for one chunk?
IsLong(element, maxChunkSize) == Length(Trim(StripTags(element.html))) > maxChunkSize

\* one round of allElements.forEach
ProcessElement(ck, element, maxChunkSize) ==
    IF IsLong(element, maxChunkSize)
    THEN AddParts(ck, SplitLongParagraph(element, maxChunkSize), maxChunkSize)
    ELSE AddParagraph(ck, element, maxChunkSize)

\* !chapter.content || !chapter.content.trim()
ChapterIsEmpty(chapter) == Trim(ContentHtml(chapter.content)) = <<>>

\* a chapter loop in which a metadata chapter takes a sequential number too
BeginChapterCountingMetadata(ck, chapter, chapterIndex) ==
    LET isMetadataPage == chapter.isMetadata = TRUE
        fromIdref == chapter.chapterNumberFromIdref
        number == IF isMetadataPage THEN NoNumber
                  ELSE IF fromIdref # NoNumber THEN fromIdref
                  ELSE ck.actualChapterNumber + 1
        counter == IF fromIdref # NoNumber /\ ~isMetadataPage
                   THEN (IF fromIdref > ck.actualChapterNumber
                         THEN fromIdref ELSE ck.actualChapterNumber)
                   ELSE ck.actualChapterNumber + 1
    IN [ck EXCEPT !.chapterIndex = chapterIndex,
                  !.chapterStartIndex = Len(ck.chunks),
                  !.isMetadataPage = isMetadataPage,
                  !.chapterNumberToUse = number,
                  !.actualChapterNumber = counter,
                  !.chapterTitle = chapter.title,
                  !.currentChunk = <<>>,
                  !.currentTitle = IF ~isMetadataPage /\ chapter.title # Null
                                   THEN chapter.title ELSE Null,
                  !.isFirstChunkOfChapter = TRUE]

\* the head of the chapter loop: chapterStartIndex, chapterNumberToUse, title
BeginChapter(ck, chapter, chapterIndex) ==
    LET isMetadataPage == chapter.isMetadata = TRUE
        fromIdref == chapter.chapterNumberFromIdref
        number == IF isMetadataPage THEN NoNumber
                  ELSE IF fromIdref # NoNumber THEN fromIdref
                  ELSE ck.actualChapterNumber + 1
        counter == IF isMetadataPage THEN ck.actualChapterNumber
                   ELSE IF fromIdref # NoNumber
                        THEN (IF fromIdref > ck.actualChapterNumber
                              THEN fromIdref ELSE ck.actualChapterNumber)
                        ELSE ck.actualChapterNumber + 1
    IN [ck EXCEPT !.chapterIndex = chapterIndex,
                  !.chapterStartIndex = Len(ck.chunks),
                  !.isMetadataPage = isMetadataPage,
                  !.chapterNumberToUse = number,
                  !.actualChapterNumber = counter,
                  !.chapterTitle = chapter.title,
                  !.currentChunk = <<>>,
                  !.currentTitle = IF ~isMetadataPage /\ chapter.title # Null
                                   THEN chapter.title ELSE Null,
                  !.isFirstChunkOfChapter = TRUE]

\* a chapter loop that records metadata chapters in chapterInfo as well
EndChapterOfAnyKind(ck) ==
    LET finalChunk == SeparateParagraphs(RemoveSpaceBetweenTags(Trim(ck.currentChunk)))
        ck1 == IF Trim(ck.currentChunk) # <<>> THEN PushChunk(ck, finalChunk) ELSE ck
        chapterEndIndex == Len(ck1.chunks) - 1
    IN IF ck1.chapterStartIndex <= chapterEndIndex
       THEN [ck1 EXCEPT !.chapterInfo = Append(@, [title |-> ck1.chapterTitle,
                                                    startIndex |-> ck1.chapterStartIndex,
                                                    endIndex |-> chapterEndIndex,
                                                    chapterNumber |-> ck1.chapterNumberToUse])]
       ELSE ck1

\* the tail of the chapter loop: the remaining chunk and the chapterInfo entry
EndChapter(ck) ==
    LET finalChunk == SeparateParagraphs(RemoveSpaceBetweenTags(Trim(ck.currentChunk)))
        ck1 == IF Trim(ck.currentChunk) # <<>> THEN PushChunk(ck, finalChunk) ELSE ck
        chapterEndIndex == Len(ck1.chunks) - 1
    IN IF ~ck1.isMetadataPage /\ ck1.chapterStartIndex <= chapterEndIndex
       THEN [ck1 EXCEPT !.chapterInfo = Append(@, [title |-> ck1.chapterTitle,
                                                    startIndex |-> ck1.chapterStartIndex,
                                                    endIndex |-> chapterEndIndex,
                                                    chapterNumber |-> ck1.chapterNumberToUse])]
       ELSE ck1

\* a chapterMetadata whose totalChapters is the number of entries
MetadataOfCounting(chapterInfo) ==
    [chapters |-> chapterInfo, totalChapters |-> Len(chapterInfo)]

\* the chapterMetadata object chunkText stores
MetadataOf(chapterInfo) ==
    LET numbers == {chapterInfo[i].chapterNumber : i \in 1..Len(chapterInfo)}
        \* ch.chapterNumber && ch.chapterNumber > maxChapterNumber, from 0
        maxChapterNumber == Max({n \in numbers : n # NoNumber /\ n # 0} \cup {0})
    IN [chapters |-> chapterInfo,
        totalChapters |-> IF maxChapterNumber > 0 THEN maxChapterNumber ELSE Len(chapterInfo)]

\* locals whose chunkId counts from 0
NewChunkerCountingFromZero ==
    [chunks |-> <<>>, chunkId |-> 0, chapterInfo |-> <<>>, actualChapterNumber |-> 0,
     chapterIndex |-> 0, chapterStartIndex |-> 0, isMetadataPage |-> FALSE,
     chapterNumberToUse |-> NoNumber, chapterTitle |-> Null, currentChunk |-> <<>>,
     currentTitle |-> Null, isFirstChunkOfChapter |-> TRUE]

\* the locals of chunkText before the first chapter
NewChunker ==
    [chunks |-> <<>>, chunkId |-> 1, chapterInfo |-> <<>>, actualChapterNumber |-> 0,
     chapterIndex |-> 0, chapterStartIndex |-> 0, isMetadataPage |-> FALSE,
     chapterNumberToUse |-> NoNumber, chapterTitle |-> Null, currentChunk |-> <<>>,
     currentTitle |-> Null, isFirstChunkOfChapter |-> TRUE]

RECURSIVE ProcessElements(_, _, _)
ProcessElements(ck, elements, maxChunkSize) ==
    IF elements = <<>> THEN ck
    ELSE ProcessElements(ProcessElement(ck, elements[1], maxChunkSize), Tail(elements), maxChunkSize)

\* one round of chapters.forEach
ChunkChapter(ck, chapter, chapterIndex, maxChunkSize) ==
    IF ChapterIsEmpty(chapter) THEN ck
    ELSE EndChapter(ProcessElements(BeginChapter(ck, chapter, chapterIndex),
                                    AllElements(chapter), maxChunkSize))

RECURSIVE ChunkChapters(_, _, _, _)
ChunkChapters(ck, chapters, chapterIndex, maxChunkSize) ==
    IF chapterIndex >= Len(chapters) THEN ck
    ELSE ChunkChapters(ChunkChapter(ck, chapters[chapterIndex + 1], chapterIndex, maxChunkSize),
                       chapters, chapterIndex + 1, maxChunkSize)

\* chunkText: the chunks it returns and the chapterMetadata it stores globally
ChunkText(chapters, maxChunkSize) ==
    LET ck == ChunkChapters(NewChunker, chapters, 0, maxChunkSize)
    IN [chunks |-> ck.chunks, chapterMetadata |-> MetadataOf(ck.chapterInfo)]

(***************************************************************************)
(* State.  The first group is one run of chunkText taken step by step: its *)
(* two arguments, its local variables, the elements of the current chapter *)
(* still to come, and what the calls so far returned and stored.  The      *)
(* second is the reader: textChunks and chapterMetadata, the fields of     *)
(* TextReels, the two localStorage entries, the pending transition timers  *)
(* and the loads awaiting their file.                                      *)
(***************************************************************************)
VARIABLES inChapters, inMaxChunkSize, locals, allElements, pc, returned,
          textChunks, chapterMetadata, currentIndex, isTransitioning,
          isDragging, touchStartY, currentDragY, isMouseDragging, mouseStartY,
          currentEpubIdentifier, originalChapters, currentDensity, parser,
          savedPosition, savedDensity, transitionTimers, loading,
          spineItems, extracted, analyticsTracker, doneReading

chunkerVars == <<inChapters, inMaxChunkSize, locals, allElements, pc, returned>>
readerVars == <<textChunks, currentIndex, isTransitioning,
                isDragging, touchStartY, currentDragY, isMouseDragging, mouseStartY,
                currentEpubIdentifier, originalChapters, currentDensity, parser,
                savedPosition, savedDensity, transitionTimers, loading,
                analyticsTracker, doneReading>>
extractorVars == <<spineItems, extracted>>
vars == <<chunkerVars, chapterMetadata, readerVars, extractorVars>>

(***************************************************************************)
(* Inputs of the chunker.                                                  *)
(***************************************************************************)
\* the longest chapter, in nodes, and the longest chapter list
MaxNodes == 3
MaxChapters == 2
\* the calls of chunkText that follow one another
MaxCalls == 3

Word(c, n) == Rep(c, n)
\* a sentence of n characters: a word and a full stop
Sentence(c, n) == Cat(Rep(c, n - 1), Lit(<<".">>))
Spaced(parts) ==
    CatAll([i \in 1..Len(parts) |-> IF i = 1 THEN parts[i] ELSE Cat(Lit(<<" ">>), parts[i])])

\* two sentences of 200 characters
TwoSentences == Spaced(<<Sentence("a", 200), Sentence("b", 200)>>)
\* a sentence of two words, 601 characters, and a short sentence after it
LongSentenceThenShort == Spaced(<<Word("a", 300), Sentence("a", 300), Sentence("b", 10)>>)
\* three words and no sentence end
RunOn == Spaced(<<Word("a", 300), Word("b", 300), Word("c", 100)>>)
\* one word of 900 characters
GiantWord == Word("a", 900)
\* two lines of 400 characters with a line break between them, no sentence end
TwoLines == CatAll(<<Word("a", 400), Lit(<<"\n">>), Word("b", 400)>>)
\* text with an emphasised word inside
WithEmphasis == CatAll(<<Sentence("a", 60), Lit(<<" ">>), Wrap("em", Word("b", 60)),
                         Lit(<<" ">>), Sentence("c", 60)>>)

Node(t, inner) == [tag |-> t, inner |-> inner]

\* the nodes chapters of several nodes are made of
CoreNodes ==
    {Node("p", Word("a", 100)), Node("p", Word("b", 450)), Node("p", Word("c", 50)),
     Node("div", TwoSentences), Node("h1", Word("x", 20)), Node("#text", Word("y", 20))}

\* the nodes a chapter of one node is made of
SingleNodes ==
    CoreNodes \cup
    {Node("p", TwoSentences), Node("p", LongSentenceThenShort), Node("p", RunOn),
     Node("p", GiantWord), Node("p", TwoLines), Node("p", WithEmphasis),
     Node("div", RunOn), Node("em", Word("z", 20)), Node("br", <<>>)}

SeqsOver(S, lo, hi) == UNION {[1..n -> S] : n \in lo..hi}

Chapter(title, nodes, isMetadata, number) ==
    [title |-> title, content |-> nodes, isMetadata |-> isMetadata,
     chapterNumberFromIdref |-> number]

\* chapters that differ in their title, kind and number, one paragraph each,
\* two chapters the chunker finds no text in and a chapter without content
PlainChapters ==
    {Chapter(t, <<Node("p", TwoSentences)>>, m, n) :
        t \in {Null, "Title"}, m \in {FALSE}, n \in {NoNumber, 7}}
    \cup {Chapter("Title", <<Node("p", TwoSentences)>>, FALSE, n) : n \in {0, 3}}
    \cup {Chapter(Null, <<Node("p", TwoSentences)>>, TRUE, NoNumber),
          Chapter("Title", <<Node("br", <<>>)>>, FALSE, NoNumber),
          Chapter("Title", <<Node("br", <<>>)>>, FALSE, 7),
          Chapter("Title", <<>>, FALSE, NoNumber)}

\* a book whose idrefs are chapter3, chapter5 and chapter7
SparseChapters ==
    <<Chapter(Null, <<Node("p", TwoSentences)>>, FALSE, 3),
      Chapter(Null, <<Node("p", TwoSentences)>>, FALSE, 5),
      Chapter(Null, <<Node("p", TwoSentences)>>, FALSE, 7)>>

\* a table of contents, a chapter whose idref is chapter3 and one without number
MixedChapters ==
    <<Chapter(Null, <<Node("p", TwoSentences)>>, TRUE, NoNumber),
      Chapter("Title", <<Node("p", TwoSentences)>>, FALSE, 3),
      Chapter("Title", <<Node("p", TwoSentences)>>, FALSE, NoNumber)>>

\* a prologue whose idref carries no number, then the chapter whose idref is chapter1
PrologueThenChapterOne ==
    <<Chapter("Title", <<Node("p", TwoSentences)>>, FALSE, NoNumber),
      Chapter("Title", <<Node("p", TwoSentences)>>, FALSE, 1)>>

ChapterLists ==
    {<<Chapter("Title", nodes, FALSE, NoNumber)>> : nodes \in SeqsOver(SingleNodes, 1, 1)}
    \cup {<<Chapter("Title", nodes, FALSE, NoNumber)>> : nodes \in SeqsOver(CoreNodes, 2, MaxNodes)}
    \cup SeqsOver(PlainChapters, 1, MaxChapters)
    \cup {SparseChapters, MixedChapters, PrologueThenChapterOne}

\* the budgets: the three densities and one smaller than any of them
ChunkSizes == {50, 300, 500, 800}

(***************************************************************************)
(* chunkText, one step of its loops at a time.                             *)
(***************************************************************************)
\* the chapter the forEach is at (chapterIndex counts from 0)
CurrentChapter == inChapters[locals.chapterIndex + 1]

\* chapters.forEach reaches a chapter: it is skipped when blank, begun otherwise
StartChapter ==
    /\ pc = "chapter"
    /\ locals.chapterIndex < Len(inChapters)
    /\ IF ChapterIsEmpty(CurrentChapter)
       THEN /\ locals' = [locals EXCEPT !.chapterIndex = @ + 1]
            /\ UNCHANGED <<allElements, pc>>
       ELSE /\ locals' = BeginChapter(locals, CurrentChapter, locals.chapterIndex)
            /\ allElements' = AllElements(CurrentChapter)
            /\ pc' = "element"
    /\ UNCHANGED <<inChapters, inMaxChunkSize, returned, chapterMetadata, readerVars, extractorVars>>

\* allElements.forEach, a paragraph within the budget
AddParagraphStep ==
    /\ pc = "element"
    /\ allElements # <<>>
    /\ ~IsLong(Head(allElements), inMaxChunkSize)
    /\ locals' = ProcessElement(locals, Head(allElements), inMaxChunkSize)
    /\ allElements' = Tail(allElements)
    /\ UNCHANGED <<inChapters, inMaxChunkSize, pc, returned, chapterMetadata, readerVars, extractorVars>>

\* allElements.forEach, a paragraph over the budget: split and added part by part
SplitParagraphStep ==
    /\ pc = "element"
    /\ allElements # <<>>
    /\ IsLong(Head(allElements), inMaxChunkSize)
    /\ locals' = ProcessElement(locals, Head(allElements), inMaxChunkSize)
    /\ allElements' = Tail(allElements)
    /\ UNCHANGED <<inChapters, inMaxChunkSize, pc, returned, chapterMetadata, readerVars, extractorVars>>

\* after the last element: the remaining chunk, the chapterInfo entry, the next chapter
FinishChapter ==
    /\ pc = "element"
    /\ allElements = <<>>
    /\ locals' = [EndChapter(locals) EXCEPT !.chapterIndex = @ + 1]
    /\ pc' = "chapter"
    /\ UNCHANGED <<inChapters, inMaxChunkSize, allElements, returned, chapterMetadata,
                   readerVars, extractorVars>>

\* after the last chapter: chapterMetadata is stored and chunks returned
StoreMetadata ==
    /\ pc = "chapter"
    /\ locals.chapterIndex = Len(inChapters)
    /\ chapterMetadata' = MetadataOf(locals.chapterInfo)
    /\ returned' = Append(returned, [chapters |-> inChapters, maxChunkSize |-> inMaxChunkSize,
                                     chunks |-> locals.chunks,
                                     chapterMetadata |-> MetadataOf(locals.chapterInfo)])
    /\ pc' = "done"
    /\ UNCHANGED <<inChapters, inMaxChunkSize, locals, allElements, readerVars, extractorVars>>

\* the chapters of a call made between two calls that chunk the same chapters
InterludeChapters ==
    <<Chapter("Title", <<Node("p", TwoSentences)>>, FALSE, 7),
      Chapter(Null, <<Node("p", Word("a", 100)), Node("p", Word("b", 450))>>, FALSE, NoNumber)>>

\* the arguments of the next call: those of the first call, or the interlude
NextCalls ==
    IF returned = <<>> THEN {}
    ELSE {[chapters |-> returned[1].chapters, maxChunkSize |-> returned[1].maxChunkSize],
          [chapters |-> InterludeChapters, maxChunkSize |-> 300]}

\* a chunkText whose chunkId and actualChapterNumber outlive the call
ChunkTextAgainKeepingCounters(chapters, maxChunkSize) ==
    /\ pc = "done"
    /\ Len(returned) < MaxCalls
    /\ inChapters' = chapters
    /\ inMaxChunkSize' = maxChunkSize
    /\ locals' = [NewChunker EXCEPT !.chunkId = locals.chunkId,
                                    !.actualChapterNumber = locals.actualChapterNumber]
    /\ allElements' = <<>>
    /\ pc' = "chapter"
    /\ UNCHANGED <<returned, chapterMetadata, readerVars, extractorVars>>

\* chunkText is called again: its locals are new, chapterMetadata is as the last call left it
ChunkTextAgain(chapters, maxChunkSize) ==
    /\ pc = "done"
    /\ Len(returned) < MaxCalls
    /\ inChapters' = chapters
    /\ inMaxChunkSize' = maxChunkSize
    /\ locals' = NewChunker
    /\ allElements' = <<>>
    /\ pc' = "chapter"
    /\ UNCHANGED <<returned, chapterMetadata, readerVars, extractorVars>>

(***************************************************************************)
(* AnalyticsTracker. A time is kept as what is asked of it: whether it is  *)
(* null. densityTimeTracking is the set of the densities whose startTime   *)
(* is not null, lastEntry the density of the last entry of pageTimes.      *)
(***************************************************************************)
\* the tracker as its constructor and reset() leave it
NewTracker == [currentDensity |-> "medium", densityTimeTracking |-> {}, lastEntry |-> Null]

\* startSession()
StartSession(tracker) ==
    [tracker EXCEPT !.densityTimeTracking = @ \cup {tracker.currentDensity}]

\* startPage(pageIndex, density)
StartPage(tracker, density) ==
    LET changed == IF density # tracker.currentDensity
                   THEN [tracker EXCEPT
                            !.densityTimeTracking = (@ \ {tracker.currentDensity}) \cup {density},
                            !.currentDensity = density]
                   ELSE tracker
    IN [changed EXCEPT !.lastEntry = density]

\* endSession()
EndSession(tracker) ==
    [tracker EXCEPT !.densityTimeTracking = @ \ {tracker.currentDensity}]

\* the reader before any book is loaded
\* no spine is being read
ExtractorIdle ==
    /\ spineItems = <<>>
    /\ extracted = <<>>

ReaderInit ==
    /\ textChunks = <<>>
    /\ chapterMetadata = [chapters |-> <<>>, totalChapters |-> 0]
    /\ currentIndex = 0
    /\ isTransitioning = FALSE
    /\ isDragging = FALSE
    /\ touchStartY = 0
    /\ currentDragY = 0
    /\ isMouseDragging = FALSE
    /\ mouseStartY = 0
    /\ currentEpubIdentifier = Null
    /\ originalChapters = <<>>
    /\ currentDensity = "medium"
    /\ parser = Null
    /\ savedPosition = [epubIdentifier |-> Null, pageIndex |-> 0]
    /\ savedDensity = Null
    /\ transitionTimers = 0
    /\ loading = {}
    /\ analyticsTracker = NewTracker
    /\ doneReading = "idle"

ChunkInit ==
    /\ inChapters \in ChapterLists
    /\ inMaxChunkSize \in ChunkSizes
    /\ locals = NewChunker
    /\ allElements = <<>>
    /\ pc = "chapter"
    /\ returned = <<>>
    /\ ReaderInit
    /\ ExtractorIdle

ChunkNext ==
    \/ StartChapter
    \/ AddParagraphStep
    \/ SplitParagraphStep
    \/ FinishChapter
    \/ StoreMetadata
    \/ \E call \in NextCalls : ChunkTextAgain(call.chapters, call.maxChunkSize)

ChunkSpec == ChunkInit /\ [][ChunkNext]_vars

(***************************************************************************)
(* The reader: TextReels and StorageManager.                               *)
(***************************************************************************)
\* this.threshold, and the snippet lengths of changeTextDensity
threshold == 40
SnippetMaxLength == 200
SnippetMinLength == 50

Densities == {"less", "medium", "more"}

\* getChunkSizeForDensity
GetChunkSizeForDensity(density) ==
    CASE density = "less" -> 300
      [] density = "more" -> 800
      [] OTHER -> 500

\* this.originalChapters = null (a loaded chapter list is never empty)
NoChapters == <<>>
\* StorageManager.loadPosition() with nothing saved
NoPosition == [epubIdentifier |-> Null, pageIndex |-> 0]

\* an updateProgress that saves nothing
UpdateProgressWithoutSave(epubIdentifier, chunks, index, saved) == saved

\* the saved position after updateProgress ran with these values
UpdateProgress(epubIdentifier, chunks, index, saved) ==
    IF epubIdentifier # Null /\ Len(chunks) > 0
    THEN [epubIdentifier |-> epubIdentifier, pageIndex |-> index]
    ELSE saved

\* Math.round(p / q * r) for p, r >= 0 and q > 0
RoundRatio(p, q, r) == (2 * p * r + q) \div (2 * q)

\* the sentences extractTextSnippet puts together: as many as fit in maxLength
RECURSIVE TakeSentences(_, _, _)
TakeSentences(snippet, sentences, maxLength) ==
    IF sentences = <<>> THEN snippet
    ELSE IF Length(snippet) + Length(sentences[1]) <= maxLength
         THEN TakeSentences(Cat(snippet, sentences[1]), Tail(sentences), maxLength)
         ELSE snippet

\* extractTextSnippet
ExtractTextSnippet(text, maxLength) ==
    LET snippet == TakeSentences(<<>>, MatchSentences(text, 1), maxLength)
        truncated == Prefix(text, maxLength)
        lastSpace == LastIndexOfSpace(truncated)
    IN IF Length(text) = 0 THEN <<>>
       ELSE IF Length(Trim(snippet)) > SnippetMinLength THEN Trim(snippet)
       ELSE IF Length(text) <= maxLength THEN text
       ELSE IF 10 * lastSpace > 7 * maxLength THEN Trim(Prefix(truncated, lastSpace))
       ELSE Trim(truncated)

\* Strategy 1: the 0-based index of the first new chunk that holds the snippet, or -1
ExactMatchIndex(newChunks, textSnippet) ==
    LET hits == {i \in 1..Len(newChunks) : Includes(newChunks[i].text, textSnippet)}
    IN IF Length(textSnippet) > SnippetMinLength /\ hits # {} THEN Min(hits) - 1 ELSE -1

\* the 1-based places in chunks of the chunks of one chapter, in order
PlacesOfChapter(chunks, chapterIndex) ==
    {i \in 1..Len(chunks) : chunks[i].chapterIndex = chapterIndex}

\* the k-th smallest member of a set of numbers, k counting from 0
RECURSIVE Nth(_, _)
Nth(S, k) == IF k = 0 THEN Min(S) ELSE Nth(S \ {Min(S)}, k - 1)

\* a strategy 2 that keeps the position in the chapter as a count of pages
ChapterRelativeIndexUnscaled(oldChunks, index, newChunks) ==
    LET currentChunk == oldChunks[index + 1]
        old == PlacesOfChapter(oldChunks, currentChunk.chapterIndex)
        new == PlacesOfChapter(newChunks, currentChunk.chapterIndex)
        positionInChapter == Cardinality({i \in old : i < index + 1})
        targetIndexInChapter == IF positionInChapter < Cardinality(new)
                                THEN positionInChapter ELSE Cardinality(new) - 1
    IN IF old # {} /\ new # {} THEN Nth(new, targetIndexInChapter) - 1 ELSE -1

\* Strategy 2: the same relative place within the same chapter, or -1
ChapterRelativeIndex(oldChunks, index, newChunks) ==
    LET currentChunk == oldChunks[index + 1]
        old == PlacesOfChapter(oldChunks, currentChunk.chapterIndex)
        new == PlacesOfChapter(newChunks, currentChunk.chapterIndex)
        withId == {i \in old : oldChunks[i].id = currentChunk.id}
        positionInChapter == IF withId = {} THEN -1
                             ELSE Cardinality({i \in old : i < Min(withId)})
        span == IF Cardinality(old) - 1 > 1 THEN Cardinality(old) - 1 ELSE 1
        targetIndexInChapter == IF positionInChapter >= 0
                                THEN RoundRatio(positionInChapter, span, Cardinality(new) - 1)
                                ELSE 0
    IN IF old # {} /\ new # {} THEN Nth(new, targetIndexInChapter) - 1 ELSE -1

\* Strategy 3: the same relative place in the whole book
BookRelativeIndex(oldChunks, index, newChunks) ==
    IF Len(oldChunks) > 1
    THEN RoundRatio(index, Len(oldChunks) - 1, Len(newChunks) - 1)
    ELSE 0

\* Math.max(0, Math.min(newIndex, length - 1))
Clamp(newIndex, length) ==
    LET upper == IF newIndex < length - 1 THEN newIndex ELSE length - 1
    IN IF upper > 0 THEN upper ELSE 0

\* the index changeTextDensity moves the reader to
NewIndex(oldChunks, index, newChunks) ==
    LET textSnippet == ExtractTextSnippet(oldChunks[index + 1].text, SnippetMaxLength)
        exact == ExactMatchIndex(newChunks, textSnippet)
        inChapter == ChapterRelativeIndex(oldChunks, index, newChunks)
        found == IF exact # -1 THEN exact
                 ELSE IF inChapter # -1 THEN inChapter
                 ELSE BookRelativeIndex(oldChunks, index, newChunks)
    IN Clamp(found, Len(newChunks))

(***************************************************************************)
(* Inputs of the reader: the files a user can pick, each with the chapters *)
(* its parser extracts, and the places a finger or the mouse can be at.    *)
(***************************************************************************)
\* the loads that may await their file at the same time
MaxInFlight == 2
\* the largest page number typed into the page field
MaxPageNumber == 6

Paragraph(c) == Node("p", Sentence(c, 120))

\* two chapters; the first repeats its first two paragraphs
NovelChapters ==
    <<Chapter("One", <<Paragraph("a"), Paragraph("b"), Paragraph("a"), Paragraph("b"),
                       Paragraph("c")>>, FALSE, NoNumber),
      Chapter(Null, <<Paragraph("d"), Paragraph("e"), Node("p", Sentence("f", 30))>>, FALSE, 7)>>

\* one chapter of one short paragraph
ShortChapters == <<Chapter("Short", <<Node("p", Sentence("g", 30))>>, FALSE, 1)>>

\* one chapter in which the chunker finds no text
BlankChapters == <<Chapter(Null, <<Node("br", <<>>)>>, FALSE, NoNumber)>>
\* an album: a chapter that holds only a line break, then a chapter of one line
AlbumChapters ==
    <<Chapter(Null, <<Node("br", <<>>)>>, FALSE, NoNumber),
      Chapter("Plates", <<Node("p", Sentence("q", 30))>>, FALSE, NoNumber)>>
\* an essay: a paragraph of four sentences of 120 characters, then two short
\* paragraphs of one sentence each, of 40 and of 60 characters
EssayChapters ==
    <<Chapter("Essay", <<Node("p", Spaced(<<Sentence("h", 120), Sentence("i", 120),
                                            Sentence("j", 120), Sentence("k", 120)>>)),
                         Node("p", Sentence("x", 40)), Node("p", Sentence("y", 60))>>,
              FALSE, 1)>>

FileNames ==
    {"novel.epub", "album.epub", "short.html", "essay.html", "blank.epub", "empty.html",
     "notes.txt"}

\* what extractText returns for the file
ChaptersOf(name) ==
    CASE name = "novel.epub" -> NovelChapters
      [] name = "album.epub" -> AlbumChapters
      [] name = "short.html" -> ShortChapters
      [] name = "essay.html" -> EssayChapters
      [] name = "blank.epub" -> BlankChapters
      [] OTHER -> <<>>

\* isHTML, isEPUB
KindOf(name) ==
    CASE name \in {"short.html", "essay.html", "empty.html"} -> "html"
      [] name \in {"novel.epub", "album.epub", "blank.epub"} -> "epub"
      [] OTHER -> "other"

\* this.parser.chunkText(chapters, maxChunkSize) for the chapters of each file and
\* the size of each density, worked out once
ChunkTextTable ==
    {[book |-> book, size |-> size, result |-> ChunkText(book, size)] :
        book \in {ChaptersOf(name) : name \in FileNames} \ {<<>>},
        size \in {GetChunkSizeForDensity(d) : d \in Densities}}

ParserChunkText(book, size) ==
    (CHOOSE row \in ChunkTextTable : row.book = book /\ row.size = size).result

\* the index changeTextDensity works out, for each list of pages the files give
\* and each place in it, worked out once
PageLists == {row.result.chunks : row \in ChunkTextTable} \ {<<>>}

NewIndexTable ==
    UNION {{[oldChunks |-> oldChunks, index |-> index, newChunks |-> newChunks,
             newIndex |-> NewIndex(oldChunks, index, newChunks)] :
               index \in 0..(Len(oldChunks) - 1), newChunks \in PageLists} :
           oldChunks \in PageLists}

RemappedIndex(oldChunks, index, newChunks) ==
    (CHOOSE row \in NewIndexTable : /\ row.oldChunks = oldChunks
                                    /\ row.index = index
                                    /\ row.newChunks = newChunks).newIndex

\* StorageManager.createEpubIdentifier
CreateEpubIdentifier(name) == name

StartYs == {100}
MoveYs == {59}
EndYs == {59, 60, 140, 141}
Keys == {"ArrowDown", "ArrowUp", "Enter"}
DensityKeys == Densities \cup {"huge"}

dragVars == <<isDragging, touchStartY, currentDragY, isMouseDragging, mouseStartY>>
navVars == <<currentIndex, isTransitioning, savedPosition, transitionTimers, analyticsTracker>>
bookVars == <<textChunks, chapterMetadata, currentEpubIdentifier, originalChapters,
              currentDensity, parser, savedDensity, loading>>

Abs(x) == IF x < 0 THEN -x ELSE x

\* a release test that also takes an offset of exactly the threshold
ReachesThreshold(finalDelta) == Abs(finalDelta) >= threshold

\* Math.abs(finalDelta) > this.threshold
ExceedsThreshold(finalDelta) == Abs(finalDelta) > threshold

\* snapBack: only styles change
SnapBack == UNCHANGED navVars

\* a transition that sets no timer
StartTransitionWithoutTimer(targetIndex) ==
    /\ isTransitioning' = TRUE
    /\ currentIndex' = targetIndex
    /\ savedPosition' = UpdateProgress(currentEpubIdentifier, textChunks, targetIndex, savedPosition)
    /\ analyticsTracker' = StartPage(analyticsTracker, currentDensity)
    /\ UNCHANGED transitionTimers

\* the common part of goToNext, goToPrevious and goToPage once they go ahead:
\* isTransitioning, the move, updateProgress and the 300 ms timer
StartTransition(targetIndex) ==
    /\ isTransitioning' = TRUE
    /\ currentIndex' = targetIndex
    /\ savedPosition' = UpdateProgress(currentEpubIdentifier, textChunks, targetIndex, savedPosition)
    /\ transitionTimers' = transitionTimers + 1
    /\ analyticsTracker' = StartPage(analyticsTracker, currentDensity)

\* a goToNext that wraps from the last page to the first
GoToNextWrapping ==
    IF isTransitioning \/ Len(textChunks) = 0
    THEN UNCHANGED <<currentIndex, isTransitioning, savedPosition, transitionTimers, analyticsTracker>>
    ELSE /\ isTransitioning' = TRUE
         /\ currentIndex' = (currentIndex + 1) % Len(textChunks)
         /\ savedPosition' = UpdateProgress(currentEpubIdentifier, textChunks,
                                             (currentIndex + 1) % Len(textChunks), savedPosition)
         /\ transitionTimers' = transitionTimers + 1
         /\ analyticsTracker' = StartPage(analyticsTracker, currentDensity)

\* goToNext
GoToNext ==
    IF isTransitioning \/ currentIndex >= Len(textChunks) - 1
    THEN SnapBack
    ELSE StartTransition(currentIndex + 1)

\* a goToPrevious that does not look at isTransitioning
GoToPreviousUnguarded ==
    IF currentIndex <= 0
    THEN UNCHANGED <<currentIndex, isTransitioning, savedPosition, transitionTimers, analyticsTracker>>
    ELSE /\ isTransitioning' = TRUE
         /\ currentIndex' = currentIndex - 1
         /\ savedPosition' = UpdateProgress(currentEpubIdentifier, textChunks, currentIndex - 1,
                                             savedPosition)
         /\ transitionTimers' = transitionTimers + 1
         /\ analyticsTracker' = StartPage(analyticsTracker, currentDensity)

\* goToPrevious
GoToPrevious ==
    IF isTransitioning \/ currentIndex <= 0
    THEN SnapBack
    ELSE StartTransition(currentIndex - 1)

\* the end of a drag, by touch or mouse
Release(finalDelta) ==
    IF ExceedsThreshold(finalDelta)
    THEN IF finalDelta < 0 THEN GoToNext ELSE GoToPrevious
    ELSE SnapBack

\* a touchstart that does not look at isTransitioning
TouchStartUnguarded(y) ==
    /\ isDragging' = TRUE
    /\ touchStartY' = y
    /\ currentDragY' = 0
    /\ UNCHANGED <<isMouseDragging, mouseStartY, currentIndex, isTransitioning, savedPosition,
                   transitionTimers, textChunks, chapterMetadata, currentEpubIdentifier,
                   originalChapters, currentDensity, parser, savedDensity, loading,
                   inChapters, inMaxChunkSize, locals, allElements, pc, returned,
                   spineItems, extracted, doneReading, analyticsTracker>>

\* touchstart
TouchStart(y) ==
    /\ IF isTransitioning
       THEN UNCHANGED <<isDragging, touchStartY, currentDragY>>
       ELSE /\ isDragging' = TRUE
            /\ touchStartY' = y
            /\ currentDragY' = 0
    /\ UNCHANGED <<isMouseDragging, mouseStartY, navVars, bookVars, chunkerVars, extractorVars, doneReading>>

\* touchmove
TouchMove(y) ==
    /\ IF ~isDragging \/ isTransitioning
       THEN UNCHANGED currentDragY
       ELSE currentDragY' = y - touchStartY
    /\ UNCHANGED <<isDragging, touchStartY, isMouseDragging, mouseStartY, navVars, bookVars,
                   chunkerVars, extractorVars, doneReading>>

\* touchend
TouchEnd(y) ==
    /\ IF ~isDragging
       THEN UNCHANGED <<isDragging, navVars>>
       ELSE /\ isDragging' = FALSE
            /\ Release(y - touchStartY)
    /\ UNCHANGED <<touchStartY, currentDragY, isMouseDragging, mouseStartY, bookVars, chunkerVars, extractorVars, doneReading>>

\* mousedown
MouseDown(y) ==
    /\ IF isTransitioning
       THEN UNCHANGED <<isMouseDragging, mouseStartY, currentDragY>>
       ELSE /\ isMouseDragging' = TRUE
            /\ mouseStartY' = y
            /\ currentDragY' = 0
    /\ UNCHANGED <<isDragging, touchStartY, navVars, bookVars, chunkerVars, extractorVars, doneReading>>

\* mousemove
MouseMove(y) ==
    /\ IF ~isMouseDragging \/ isTransitioning
       THEN UNCHANGED currentDragY
       ELSE currentDragY' = y - mouseStartY
    /\ UNCHANGED <<isDragging, touchStartY, isMouseDragging, mouseStartY, navVars, bookVars,
                   chunkerVars, extractorVars, doneReading>>

\* mouseup
MouseUp(y) ==
    /\ IF ~isMouseDragging
       THEN UNCHANGED <<isMouseDragging, navVars>>
       ELSE /\ isMouseDragging' = FALSE
            /\ Release(y - mouseStartY)
    /\ UNCHANGED <<isDragging, touchStartY, currentDragY, mouseStartY, bookVars, chunkerVars, extractorVars, doneReading>>

\* keydown on the document
KeyDown(key) ==
    /\ IF key = "ArrowDown" THEN GoToNext
       ELSE IF key = "ArrowUp" THEN GoToPrevious
       ELSE UNCHANGED navVars
    /\ UNCHANGED <<dragVars, bookVars, chunkerVars, extractorVars, doneReading>>

\* a goToPage that does not compare the page number with the number of pages
GoToPageUnchecked(isNumber, targetPage) ==
    /\ IF ~isNumber \/ targetPage < 1
       THEN /\ savedPosition' = UpdateProgress(currentEpubIdentifier, textChunks, currentIndex,
                                               savedPosition)
            /\ UNCHANGED <<currentIndex, isTransitioning, transitionTimers, analyticsTracker>>
       ELSE IF isTransitioning \/ targetPage - 1 = currentIndex
            THEN UNCHANGED <<currentIndex, isTransitioning, savedPosition, transitionTimers, analyticsTracker>>
            ELSE /\ isTransitioning' = TRUE
                 /\ currentIndex' = targetPage - 1
                 /\ savedPosition' = UpdateProgress(currentEpubIdentifier, textChunks,
                                                     targetPage - 1, savedPosition)
                 /\ transitionTimers' = transitionTimers + 1
                 /\ analyticsTracker' = StartPage(analyticsTracker, currentDensity)
    /\ UNCHANGED <<isDragging, touchStartY, currentDragY, isMouseDragging, mouseStartY,
                   textChunks, chapterMetadata, currentEpubIdentifier, originalChapters,
                   currentDensity, parser, savedDensity, loading,
                   inChapters, inMaxChunkSize, locals, allElements, pc, returned,
                   spineItems, extracted, doneReading>>

\* a goToPage that does not look at isTransitioning
GoToPageOverTransition(isNumber, targetPage) ==
    /\ IF ~isNumber \/ targetPage < 1 \/ targetPage > Len(textChunks)
       THEN /\ savedPosition' = UpdateProgress(currentEpubIdentifier, textChunks, currentIndex,
                                               savedPosition)
            /\ UNCHANGED <<currentIndex, isTransitioning, transitionTimers, analyticsTracker>>
       ELSE IF targetPage - 1 = currentIndex
            THEN /\ savedPosition' = UpdateProgress(currentEpubIdentifier, textChunks,
                                                    currentIndex, savedPosition)
                 /\ UNCHANGED <<currentIndex, isTransitioning, transitionTimers, analyticsTracker>>
            ELSE /\ isTransitioning' = TRUE
                 /\ currentIndex' = targetPage - 1
                 /\ savedPosition' = UpdateProgress(currentEpubIdentifier, textChunks,
                                                     targetPage - 1, savedPosition)
                 /\ transitionTimers' = transitionTimers + 1
                 /\ analyticsTracker' = StartPage(analyticsTracker, currentDensity)
    /\ UNCHANGED <<isDragging, touchStartY, currentDragY, isMouseDragging, mouseStartY,
                   textChunks, chapterMetadata, currentEpubIdentifier, originalChapters,
                   currentDensity, parser, savedDensity, loading,
                   inChapters, inMaxChunkSize, locals, allElements, pc, returned,
                   spineItems, extracted, doneReading>>

\* goToPage(pageNumber): isNumber is !isNaN(parseInt(pageNumber)), targetPage the number
GoToPage(isNumber, targetPage) ==
    /\ IF ~isNumber \/ targetPage < 1 \/ targetPage > Len(textChunks)
       THEN /\ savedPosition' = UpdateProgress(currentEpubIdentifier, textChunks, currentIndex,
                                               savedPosition)
            /\ UNCHANGED <<currentIndex, isTransitioning, transitionTimers, analyticsTracker>>
       ELSE IF isTransitioning
            THEN UNCHANGED navVars
            ELSE IF targetPage - 1 = currentIndex
                 THEN /\ savedPosition' = UpdateProgress(currentEpubIdentifier, textChunks,
                                                         currentIndex, savedPosition)
                      /\ UNCHANGED <<currentIndex, isTransitioning, transitionTimers, analyticsTracker>>
                 ELSE StartTransition(targetPage - 1)
    /\ UNCHANGED <<dragVars, bookVars, chunkerVars, extractorVars, doneReading>>

\* a timer callback that puts the reader back on the first page
TransitionTimerResettingIndex ==
    /\ transitionTimers > 0
    /\ isTransitioning' = FALSE
    /\ transitionTimers' = transitionTimers - 1
    /\ currentIndex' = 0
    /\ UNCHANGED <<savedPosition, dragVars, bookVars, chunkerVars, extractorVars, doneReading, analyticsTracker>>

\* the callback of the 300 ms timer a transition set
TransitionTimer ==
    /\ transitionTimers > 0
    /\ isTransitioning' = FALSE
    /\ transitionTimers' = transitionTimers - 1
    /\ UNCHANGED <<currentIndex, savedPosition, dragVars, bookVars, chunkerVars, extractorVars, doneReading, analyticsTracker>>

\* loadEPUB up to its first await: the file type is checked and this.parser set
LoadStart(name) ==
    /\ name \notin loading
    /\ Cardinality(loading) < MaxInFlight
    /\ IF KindOf(name) = "other"
       THEN UNCHANGED <<parser, loading>>
       ELSE /\ parser' = KindOf(name)
            /\ loading' = loading \cup {name}
    /\ UNCHANGED <<textChunks, chapterMetadata, currentEpubIdentifier, originalChapters,
                   currentDensity, savedDensity, dragVars, navVars, chunkerVars, extractorVars, doneReading>>

\* a loadEPUB that restores no position
StartIndexAtZero(epubIdentifier, chunks) == 0

\* the start index loadEPUB restores: the saved one when it is of this book and in range
StartIndex(epubIdentifier, chunks) ==
    IF /\ savedPosition # NoPosition
       /\ savedPosition.epubIdentifier = epubIdentifier
       /\ savedPosition.pageIndex < Len(chunks)
    THEN savedPosition.pageIndex
    ELSE 0

\* loadEPUB from the assignment of currentEpubIdentifier on: the book is shown
ShowBook(epubIdentifier, chunks, startIndex) ==
    /\ currentEpubIdentifier' = epubIdentifier
    /\ textChunks' = chunks
    /\ currentIndex' = startIndex
    /\ analyticsTracker' = StartPage(StartSession([NewTracker EXCEPT
                                                      !.currentDensity = currentDensity']),
                                      currentDensity')
    /\ savedPosition' = UpdateProgress(epubIdentifier, chunks, startIndex, savedPosition)

\* a loadEPUB that shows whatever chunkText returned, an empty list too
LoadChunksOfAnyLength(epubIdentifier, result) ==
    /\ chapterMetadata' = result.chapterMetadata
    /\ ShowBook(epubIdentifier, result.chunks, StartIndex(epubIdentifier, result.chunks))

\* loadEPUB once chunkText has returned result (and stored its chapterMetadata)
LoadChunks(epubIdentifier, result) ==
    /\ chapterMetadata' = result.chapterMetadata
    /\ IF Len(result.chunks) = 0
       THEN UNCHANGED <<textChunks, currentEpubIdentifier, currentIndex, savedPosition, analyticsTracker>>
       ELSE ShowBook(epubIdentifier, result.chunks, StartIndex(epubIdentifier, result.chunks))

\* loadEPUB once extractText has returned chapters that are not empty
LoadChapters(epubIdentifier, newChapters, density) ==
    /\ originalChapters' = newChapters
    /\ currentDensity' = density
    /\ LoadChunks(epubIdentifier,
                  ParserChunkText(newChapters, GetChunkSizeForDensity(density)))

\* loadEPUB after its last await, with the chapters extractText gave
LoadFinish(name) ==
    /\ name \in loading
    /\ loading' = loading \ {name}
    /\ IF Len(ChaptersOf(name)) = 0
       THEN UNCHANGED <<textChunks, chapterMetadata, currentEpubIdentifier, originalChapters,
                        currentDensity, currentIndex, savedPosition, analyticsTracker>>
       ELSE LoadChapters(CreateEpubIdentifier(name), ChaptersOf(name),
                         IF savedDensity \in Densities THEN savedDensity ELSE currentDensity)
    /\ UNCHANGED <<parser, savedDensity, isTransitioning, transitionTimers, dragVars,
                   chunkerVars, extractorVars, doneReading>>

\* changeTextDensity from the replacement of textChunks on
Reflow(newDensity, newChunks, newIndex) ==
    /\ textChunks' = newChunks
    /\ currentDensity' = newDensity
    /\ savedDensity' = newDensity
    /\ currentIndex' = newIndex
    /\ savedPosition' = UpdateProgress(currentEpubIdentifier, newChunks, newIndex, savedPosition)
    /\ analyticsTracker' = StartPage(analyticsTracker, newDensity)

\* changeTextDensity once chunkText has returned result (and stored its chapterMetadata)
Rechunk(newDensity, result) ==
    /\ chapterMetadata' = result.chapterMetadata
    /\ IF Len(result.chunks) = 0
       THEN UNCHANGED <<textChunks, currentDensity, savedDensity, currentIndex, savedPosition, analyticsTracker>>
       ELSE Reflow(newDensity, result.chunks,
                   RemappedIndex(textChunks, currentIndex, result.chunks))

\* a changeTextDensity that takes any key
ChangeTextDensityOfAnyKey(newDensity) ==
    /\ IF \/ originalChapters = NoChapters \/ parser = Null
          \/ currentIndex >= Len(textChunks)
       THEN UNCHANGED <<textChunks, chapterMetadata, currentDensity, savedDensity,
                        currentIndex, savedPosition, analyticsTracker>>
       ELSE Rechunk(newDensity,
                    ParserChunkText(originalChapters, GetChunkSizeForDensity(newDensity)))
    /\ UNCHANGED <<currentEpubIdentifier, originalChapters, parser, loading, isTransitioning,
                   transitionTimers, dragVars, chunkerVars, extractorVars, doneReading>>

\* changeTextDensity
ChangeTextDensity(newDensity) ==
    /\ IF \/ originalChapters = NoChapters \/ parser = Null
          \/ newDensity \notin Densities
          \/ currentIndex >= Len(textChunks)
       THEN UNCHANGED <<textChunks, chapterMetadata, currentDensity, savedDensity,
                        currentIndex, savedPosition, analyticsTracker>>
       ELSE Rechunk(newDensity,
                    ParserChunkText(originalChapters, GetChunkSizeForDensity(newDensity)))
    /\ UNCHANGED <<currentEpubIdentifier, originalChapters, parser, loading, isTransitioning,
                   transitionTimers, dragVars, chunkerVars, extractorVars, doneReading>>

\* handleDoneReading up to its await: the page and the session are closed and
\* the session data sent; the button is disabled until the handler returns
DoneReadingStart ==
    /\ doneReading = "idle"
    /\ IF currentEpubIdentifier = Null \/ Len(textChunks) = 0
       THEN UNCHANGED <<analyticsTracker, doneReading>>
       ELSE /\ analyticsTracker' = EndSession(StartPage(analyticsTracker, currentDensity))
            /\ doneReading' = "submitting"
    /\ UNCHANGED <<currentIndex, isTransitioning, savedPosition, transitionTimers,
                   dragVars, textChunks, chapterMetadata, currentEpubIdentifier,
                   originalChapters, currentDensity, parser, savedDensity, loading,
                   chunkerVars, extractorVars>>

\* handleDoneReading after its await: the tracker is reset
DoneReadingFinish ==
    /\ doneReading = "submitting"
    /\ analyticsTracker' = NewTracker
    /\ doneReading' = "idle"
    /\ UNCHANGED <<currentIndex, isTransitioning, savedPosition, transitionTimers,
                   dragVars, textChunks, chapterMetadata, currentEpubIdentifier,
                   originalChapters, currentDensity, parser, savedDensity, loading,
                   chunkerVars, extractorVars>>

Init ==
    /\ inChapters = <<>>
    /\ inMaxChunkSize = 500
    /\ locals = NewChunker
    /\ allElements = <<>>
    /\ pc = "idle"
    /\ returned = <<>>
    /\ ReaderInit
    /\ ExtractorIdle

Next ==
    \/ \E y \in StartYs : TouchStart(y)
    \/ \E y \in MoveYs : TouchMove(y)
    \/ \E y \in EndYs : TouchEnd(y)
    \/ \E y \in StartYs : MouseDown(y)
    \/ \E y \in MoveYs : MouseMove(y)
    \/ \E y \in EndYs : MouseUp(y)
    \/ \E key \in Keys : KeyDown(key)
    \/ \E n \in 0..MaxPageNumber : GoToPage(TRUE, n)
    \/ GoToPage(FALSE, 0)
    \/ TransitionTimer
    \/ \E name \in FileNames : LoadStart(name)
    \/ \E name \in FileNames : LoadFinish(name)
    \/ \E d \in DensityKeys : ChangeTextDensity(d)

Spec == Init /\ [][Next]_vars

\* the 300 ms timer of a transition fires
FairSpec == Spec /\ WF_vars(TransitionTimer)

\* the reader with its Done Reading button. handleDoneReading writes
\* analyticsTracker and doneReading only, and no other handler reads them
\* except to write analyticsTracker, so that Spec has the same pages, cursor
\* and loads without it.
TrackerNext ==
    \/ Next
    \/ DoneReadingStart
    \/ DoneReadingFinish

TrackerSpec == Init /\ [][TrackerNext]_vars

(***************************************************************************)
(* Properties of one chunking run.                                         *)
(***************************************************************************)
\* the text a reader sees of a piece of markup, and its length as the code measures it
Detagged(html) == Trim(StripTags(html))
DetaggedLength(html) == Length(Detagged(html))

\* s without its white space
Squash(s) == Norm(SelectSeq(s, LAMBDA r : ~IsWS(r.c)))

HasSpace(s) == \E k \in 1..Len(s) : IsWS(s[k].c)

\* the pages of the run that belong to the chapter at chapterIndex, in page order
PagesOf(chunks, chapterIndex) == SelectSeq(chunks, LAMBDA page : page.chapterIndex = chapterIndex)

\* the de-tagged text of some pages, one after the other
PagesText(pages) == CatAll([i \in 1..Len(pages) |-> StripTags(pages[i].text)])

\* C1: every page of a finished run holds at most maxChunkSize de-tagged
\* characters, unless it is one single word, without white space, that is
\* itself longer than maxChunkSize.
C1_SizeBound ==
    pc = "done" =>
        \A i \in 1..Len(locals.chunks) :
            \/ DetaggedLength(locals.chunks[i].text) <= inMaxChunkSize
            \/ ~HasSpace(Detagged(locals.chunks[i].text))

\* C2: for every chapter with content, the de-tagged text of its pages, in
\* page order, is the chapter's de-tagged content, white space aside.
C2_Lossless ==
    pc = "done" =>
        \A c \in 1..Len(inChapters) :
            ~ChapterIsEmpty(inChapters[c]) =>
                Squash(PagesText(PagesOf(locals.chunks, c - 1)))
                    = Squash(StripTags(ContentHtml(inChapters[c].content)))

\* the chapter of three paragraphs of 100, 450 and 50 characters
ScenarioChapters ==
    <<Chapter("Title", <<Node("p", Word("a", 100)), Node("p", Word("b", 450)),
                         Node("p", Word("c", 50))>>, FALSE, NoNumber)>>

\* C3: the buffer is saved before a paragraph only when it is not empty and
\* its de-tagged length plus the paragraph's exceeds maxChunkSize; and the
\* paragraphs of 100, 450 and 50 characters at 500 come out as two pages, the
\* first paragraph alone and then the other two.
C3_FlushRule ==
    /\ [][AddParagraphStep /\ Len(locals'.chunks) > Len(locals.chunks) =>
            /\ locals.currentChunk # <<>>
            /\ DetaggedLength(locals.currentChunk) + DetaggedLength(Head(allElements).html)
                    > inMaxChunkSize]_vars
    /\ [](pc = "done" /\ inChapters = ScenarioChapters /\ inMaxChunkSize = 500 =>
            /\ Len(locals.chunks) = 2
            /\ StripTags(locals.chunks[1].text) = Word("a", 100)
            /\ Squash(StripTags(locals.chunks[2].text)) = Cat(Word("b", 450), Word("c", 50)))

(***************************************************************************)
(* Properties of the reader.                                               *)
(***************************************************************************)
\* a density change that goes ahead and re-chunks with the size the pages were cut with
RechunksAtSameSize(d) ==
    /\ ChangeTextDensity(d)
    /\ originalChapters # NoChapters
    /\ parser # Null
    /\ currentIndex < Len(textChunks)
    /\ textChunks = ParserChunkText(originalChapters, GetChunkSizeForDensity(d)).chunks

\* C4: a density change that re-chunks the retained chapters with the size that
\* produced the current pages leaves the current index where it was.
C4_PositionStability ==
    [][\A d \in Densities : RechunksAtSameSize(d) => currentIndex' = currentIndex]_vars

\* C5: the current index is a valid index of the page list whenever the list is
\* not empty, and 0 whenever it is empty.
C5_CursorValidity ==
    IF Len(textChunks) = 0
    THEN currentIndex = 0
    ELSE currentIndex \in 0..(Len(textChunks) - 1)

\* a density change has gone ahead and the reader stands on the last of several pages
C5_Witness ==
    /\ savedDensity # Null
    /\ Len(textChunks) > 1
    /\ currentIndex = Len(textChunks) - 1

\* a touch or the mouse goes down
DragStart == \E y \in StartYs : TouchStart(y) \/ MouseDown(y)

\* next, previous, a drag release or a page jump is asked for
NavigationRequest ==
    \/ \E y \in EndYs : TouchEnd(y) \/ MouseUp(y)
    \/ \E key \in Keys : KeyDown(key)
    \/ \E n \in 0..MaxPageNumber : GoToPage(TRUE, n)
    \/ GoToPage(FALSE, 0)

\* C6: while isTransitioning holds no touchstart or mousedown starts a drag and
\* no next, previous, drag release or page jump changes currentIndex; and the
\* end of the transition changes neither currentIndex nor the drag state, so
\* that nothing dropped is done later.
C6_TransitionExclusivity ==
    /\ [][isTransitioning /\ DragStart => UNCHANGED <<isDragging, isMouseDragging>>]_vars
    /\ [][isTransitioning /\ NavigationRequest => currentIndex' = currentIndex]_vars
    /\ [][TransitionTimer => currentIndex' = currentIndex /\ UNCHANGED dragVars]_vars

\* a transition is under way in the middle of a book while a finger is still down
C6_Witness ==
    /\ isTransitioning
    /\ isDragging
    /\ 0 < currentIndex
    /\ currentIndex < Len(textChunks) - 1

\* C7: at most one transition timer is pending, and one is pending exactly
\* when isTransitioning holds.
C7_OneTransition ==
    /\ transitionTimers <= 1
    /\ (transitionTimers = 1) <=> isTransitioning

\* a transition is under way while a load awaits its file
C7_Witness ==
    /\ isTransitioning
    /\ transitionTimers = 1
    /\ loading # {}

\* C8: whenever isTransitioning holds it later does not, given that the
\* timer of a transition fires.
C8_TransitionResolves == isTransitioning ~> ~isTransitioning

\* a transition is under way after a density change, away from the first page
C8_Witness ==
    /\ isTransitioning
    /\ savedDensity # Null
    /\ currentIndex > 0

\* what the release of a drag by the offset does, as the rule has it
ReleasedBy(offset) ==
    IF offset < -40
    THEN currentIndex + 1 < Len(textChunks) =>
            currentIndex' = currentIndex + 1 /\ isTransitioning'
    ELSE IF offset > 40
         THEN currentIndex - 1 >= 0 =>
                 currentIndex' = currentIndex - 1 /\ isTransitioning'
         ELSE currentIndex' = currentIndex /\ isTransitioning' = isTransitioning

\* C9: a drag released while no transition is under way starts a transition
\* to the next page for an offset below -40 and to the previous page for an
\* offset above 40, when that page exists; for an offset of at most 40 either
\* way currentIndex and isTransitioning stay as they are.
C9_DragReleaseRule ==
    /\ [][\A y \in EndYs : TouchEnd(y) /\ isDragging /\ ~isTransitioning =>
                              ReleasedBy(y - touchStartY)]_vars
    /\ [][\A y \in EndYs : MouseUp(y) /\ isMouseDragging /\ ~isTransitioning =>
                              ReleasedBy(y - mouseStartY)]_vars

\* a finger is down in the middle of a book and no transition is under way
C9_Witness ==
    /\ isDragging
    /\ ~isTransitioning
    /\ 0 < currentIndex
    /\ currentIndex < Len(textChunks) - 1

\* next is asked for: ArrowDown, or a drag released more than 40 upwards
NextRequest ==
    \/ KeyDown("ArrowDown")
    \/ \E y \in EndYs : TouchEnd(y) /\ isDragging /\ y - touchStartY < -40
    \/ \E y \in EndYs : MouseUp(y) /\ isMouseDragging /\ y - mouseStartY < -40

\* previous is asked for: ArrowUp, or a drag released more than 40 downwards
PreviousRequest ==
    \/ KeyDown("ArrowUp")
    \/ \E y \in EndYs : TouchEnd(y) /\ isDragging /\ y - touchStartY > 40
    \/ \E y \in EndYs : MouseUp(y) /\ isMouseDragging /\ y - mouseStartY > 40

\* C10: next on the last page and previous on the first page leave
\* currentIndex as it is and start no transition.
C10_BoundaryPolicy ==
    /\ [][NextRequest /\ currentIndex = Len(textChunks) - 1 =>
            /\ currentIndex' = currentIndex
            /\ UNCHANGED <<isTransitioning, transitionTimers>>]_vars
    /\ [][PreviousRequest /\ currentIndex = 0 =>
            /\ currentIndex' = currentIndex
            /\ UNCHANGED <<isTransitioning, transitionTimers>>]_vars

\* the mouse is down on the last of several pages and no transition is under way
C10_Witness ==
    /\ isMouseDragging
    /\ ~isTransitioning
    /\ Len(textChunks) > 1
    /\ currentIndex = Len(textChunks) - 1

\* what a page-number request must do to the cursor: a number of a page other
\* than the current one, with no transition in flight, moves there and starts a
\* transition; a request that is not a number, is below 1, is above the number
\* of pages or comes during a transition changes nothing
PageJumpOutcome(isNumber, n) ==
    IF isNumber /\ 1 <= n /\ n <= Len(textChunks) /\ ~isTransitioning
    THEN n - 1 # currentIndex => currentIndex' = n - 1 /\ isTransitioning' = TRUE
    ELSE UNCHANGED <<currentIndex, isTransitioning>>

\* C11: goToPage(n) with 1 <= n <= pages.length, n - 1 # currentIndex and no
\* transition in flight sets currentIndex to n - 1 and starts a transition; if
\* n is not a number, n < 1, n > pages.length or a transition is in flight,
\* currentIndex and isTransitioning stay as they are.
C11_PageJump ==
    [][/\ \A n \in 0..MaxPageNumber : GoToPage(TRUE, n) => PageJumpOutcome(TRUE, n)
       /\ GoToPage(FALSE, 0) => PageJumpOutcome(FALSE, 0)]_vars

\* a jump has landed on a page other than the first of a book of several pages,
\* and its transition is in flight
C11_Witness ==
    /\ isTransitioning
    /\ transitionTimers = 1
    /\ Len(textChunks) >= 3
    /\ currentIndex = 2
    /\ savedPosition.pageIndex = 2

\* the snippet of a page as a reader sees it: extractTextSnippet of its de-tagged text
AnchorOf(page) == ExtractTextSnippet(Detagged(page.text), SnippetMaxLength)

\* a change from medium to less that goes ahead, the pages being the medium pages
\* of the retained chapters
MediumToLess ==
    /\ ChangeTextDensity("less")
    /\ currentDensity = "medium"
    /\ currentDensity' = "less"
    /\ textChunks = ParserChunkText(originalChapters, GetChunkSizeForDensity("medium")).chunks

\* C12: when the density changes from medium to less, the de-tagged text of the
\* new current page contains the snippet taken from the start of the old
\* current page, whenever that snippet has at least 50 characters.
C12_DensityAnchor ==
    [][MediumToLess /\ Length(AnchorOf(textChunks[currentIndex + 1])) >= SnippetMinLength
        => Includes(StripTags(textChunks'[currentIndex' + 1].text),
                    AnchorOf(textChunks[currentIndex + 1]))]_vars

\* a density change to d gets as far as chunking and is given no page
RechunksToNothing(d) ==
    /\ originalChapters # NoChapters
    /\ parser # Null
    /\ currentIndex < Len(textChunks)
    /\ ParserChunkText(originalChapters, GetChunkSizeForDensity(d)).chunks = <<>>

\* C13: a density change whose re-chunk yields an empty page list leaves the
\* reader at index 0, not at the index it had, also after a load that replaced
\* the retained chapters and produced no page.  Such a change assigns neither
\* currentIndex nor textChunks, so the state it leaves is the state it found:
\* the index is 0 after it exactly where it was 0 before it.
C13_RemapNeverFails ==
    \A d \in Densities : RechunksToNothing(d) => currentIndex = 0

\* C15: between any two operations, failed loads and abandoned density
\* changes included, chapterMetadata is the one stored by the chunking run
\* that returned the pages in textChunks.
C15_AtomicReplacement ==
    textChunks # <<>> =>
        \E row \in ChunkTextTable : /\ row.result.chunks = textChunks
                                     /\ row.result.chapterMetadata = chapterMetadata

(***************************************************************************)
(* Properties of calls of chunkText that follow one another.               *)
(***************************************************************************)
\* C14: two calls of chunkText with the same chapters and the same
\* maxChunkSize return the same pages (ids, text, titles, chapterIndex and
\* chapter numbers) and store the same chapterMetadata, whatever calls were
\* made between them.
C14_IdempotentRechunk ==
    \A i, j \in 1..Len(returned) :
        /\ returned[i].chapters = returned[j].chapters
        /\ returned[i].maxChunkSize = returned[j].maxChunkSize
        => /\ returned[i].chunks = returned[j].chunks
           /\ returned[i].chapterMetadata = returned[j].chapterMetadata

\* three calls have returned: the third had the arguments of the first, the
\* second had others, and the pages carry ids and chapter numbers
C14_Witness ==
    /\ Len(returned) = 3
    /\ returned[1].chapters = returned[3].chapters
    /\ returned[1].maxChunkSize = returned[3].maxChunkSize
    /\ returned[2].chapters # returned[1].chapters
    /\ Len(returned[3].chunks) >= 2
    /\ returned[3].chapterMetadata.totalChapters >= 1

(***************************************************************************)
(* Properties of the chapter numbers and of chapterMetadata.               *)
(***************************************************************************)
\* the number the k-th chapter of a list is to get: that of its idref, or else
\* the integer after the largest number given to a chapter before it; none for
\* a metadata chapter and for a chapter without content
RECURSIVE NumberDue(_, _)
NumberDue(chapterList, k) ==
    IF ChapterIsEmpty(chapterList[k]) \/ chapterList[k].isMetadata THEN NoNumber
    ELSE IF chapterList[k].chapterNumberFromIdref # NoNumber
         THEN chapterList[k].chapterNumberFromIdref
         ELSE 1 + Max({NumberDue(chapterList, j) : j \in 1..(k - 1)} \cup {0})

\* the numbers the pages so far carry
NumbersInUse == {locals.chunks[i].actualChapterNumber : i \in 1..Len(locals.chunks)}

\* C16: going through the chapters in order, a chapter that is not metadata
\* gets the number of its idref when it has one, and otherwise the next
\* sequential integer, one that no earlier chapter has; a metadata chapter
\* gets no number and does not advance the running counter.
C16_ChapterNumberDerivation ==
    [][StartChapter /\ ~ChapterIsEmpty(CurrentChapter) =>
        /\ locals'.chapterNumberToUse = NumberDue(inChapters, locals.chapterIndex + 1)
        /\ CurrentChapter.isMetadata =>
                locals'.actualChapterNumber = locals.actualChapterNumber
        /\ ~CurrentChapter.isMetadata /\ CurrentChapter.chapterNumberFromIdref = NoNumber =>
                /\ locals'.chapterNumberToUse \notin NumbersInUse
                /\ locals'.chapterNumberToUse = locals'.actualChapterNumber]_vars

\* the run is over for a table of contents, a chapter numbered 3 by its idref
\* and a chapter without idref number: the table of contents has no entry, the
\* two chapters have the numbers 3 and 4
C16_Witness ==
    /\ pc = "done"
    /\ inChapters = MixedChapters
    /\ Len(locals.chapterInfo) = 2
    /\ locals.chapterInfo[1].chapterNumber = 3
    /\ locals.chapterInfo[2].chapterNumber = 4
    /\ locals.actualChapterNumber = 4

\* the run is over for one chapter, not metadata, whose idref gives the number 7
OnlyChapterSeven ==
    /\ pc = "done"
    /\ Len(inChapters) = 1
    /\ ~inChapters[1].isMetadata
    /\ inChapters[1].chapterNumberFromIdref = 7

\* its pages all carry the number 7 and totalChapters is at least 7
SevenEverywhere ==
    /\ \A i \in 1..Len(locals.chunks) : locals.chunks[i].actualChapterNumber = 7
    /\ chapterMetadata.totalChapters >= 7

\* C17: a single chapter, not metadata, whose identifier yields the number 7
\* produces pages that all carry the number 7, and totalChapters is at least 7
\* although one chapter was supplied.
C17_IdentifierNumbered == OnlyChapterSeven => SevenEverywhere

\* C17, amended: the same of a chapter that emits at least one page.
C17_IdentifierNumberedWithPages ==
    OnlyChapterSeven /\ Len(locals.chunks) >= 1 => SevenEverywhere

\* the chapter numbered 7 came out as two pages or more
C17_Witness ==
    /\ OnlyChapterSeven
    /\ Len(locals.chunks) >= 2
    /\ chapterMetadata.totalChapters = 7

\* the chapter numbers of the entries of a ChapterIndex
NumbersOf(metadata) ==
    {metadata.chapters[i].chapterNumber : i \in 1..Len(metadata.chapters)} \ {NoNumber}

\* C18: after a chunking run, totalChapters is the largest chapterNumber of the
\* ChapterIndex entries when an entry has a number, and the number of entries
\* otherwise; entries numbered 3, 5 and 7 give totalChapters = 7.
C18_TotalChapters ==
    pc = "done" =>
        /\ chapterMetadata.totalChapters =
              IF NumbersOf(chapterMetadata) # {} THEN Max(NumbersOf(chapterMetadata))
              ELSE Len(chapterMetadata.chapters)
        /\ inChapters = SparseChapters => chapterMetadata.totalChapters = 7

\* the entries of a ChapterIndex lie one after the other: each range ends
\* before the next one starts
RangesIncrease(metadata) ==
    \A i, j \in 1..Len(metadata.chapters) :
        i < j => metadata.chapters[i].endIndex < metadata.chapters[j].startIndex

\* C19: after a chunking run, totalChapters is at least the number of
\* different chapter numbers among the ChapterIndex entries, whatever the
\* idref numbers (0 included) and the sequential numbers are, and the entries'
\* ranges startIndex..endIndex are strictly increasing and do not overlap.
C19_NumberingMonotonicity ==
    pc = "done" =>
        /\ chapterMetadata.totalChapters >= Cardinality(NumbersOf(chapterMetadata))
        /\ RangesIncrease(chapterMetadata)

\* the chapters (counted from 0) that are not metadata and have a page among chunks
ChaptersWithPages(chapterList, chunks) ==
    {c \in 0..(Len(chapterList) - 1) :
        ~chapterList[c + 1].isMetadata /\ PlacesOfChapter(chunks, c) # {}}

\* the chapter the first page of an entry belongs to
ChapterOfEntry(entry, chunks) == chunks[entry.startIndex + 1].chapterIndex

\* C20: after a chunking run the ChapterIndex has exactly one entry for each
\* chapter that is not metadata and emitted a page, and none for a metadata
\* chapter or a chapter without page; each entry has startIndex <= endIndex and
\* its range is exactly the indices of the pages of its chapter.
C20_ChapterIndexCoverage ==
    pc = "done" =>
        LET entries == chapterMetadata.chapters
            due == ChaptersWithPages(inChapters, locals.chunks)
        IN /\ Len(entries) = Cardinality(due)
           /\ \A k \in 1..Len(entries) :
                /\ 0 <= entries[k].startIndex
                /\ entries[k].startIndex <= entries[k].endIndex
                /\ entries[k].endIndex < Len(locals.chunks)
                /\ ChapterOfEntry(entries[k], locals.chunks) \in due
                /\ {i - 1 : i \in PlacesOfChapter(locals.chunks,
                                                  ChapterOfEntry(entries[k], locals.chunks))}
                     = entries[k].startIndex..entries[k].endIndex
           /\ \A c \in due :
                Cardinality({k \in 1..Len(entries) :
                                ChapterOfEntry(entries[k], locals.chunks) = c}) = 1

\* the run is over for the table of contents and the two chapters: the table of
\* contents has pages and no entry, and the first entry spans several pages
C20_Witness ==
    /\ pc = "done"
    /\ inChapters = MixedChapters
    /\ Len(chapterMetadata.chapters) = 2
    /\ chapterMetadata.chapters[1].startIndex >= 1
    /\ chapterMetadata.chapters[1].endIndex > chapterMetadata.chapters[1].startIndex
    /\ locals.chunks[1].chapterIndex = 0

(***************************************************************************)
(* Properties of the pages of a chunking run.                              *)
(***************************************************************************)
\* the title a chapter shows: its title, unless it is a metadata chapter
DisplayTitle(chapter) == IF chapter.isMetadata THEN Null ELSE chapter.title

\* C21: of the pages emitted for one chapter only the first carries the
\* chapter's display title and every later page of the chapter has no title;
\* the pages of a metadata chapter never carry a title.
C21_TitlePlacement ==
    pc = "done" =>
        \A i \in 1..Len(locals.chunks) :
            LET page == locals.chunks[i]
                first == Min(PlacesOfChapter(locals.chunks, page.chapterIndex))
            IN page.title = IF i = first THEN DisplayTitle(inChapters[page.chapterIndex + 1])
                            ELSE Null

\* the run is over for the table of contents and the two titled chapters: the
\* table of contents has pages, and a titled chapter has a page after its first
C21_Witness ==
    /\ pc = "done"
    /\ inChapters = MixedChapters
    /\ PlacesOfChapter(locals.chunks, 0) # {}
    /\ \E i, j \in PlacesOfChapter(locals.chunks, 1) :
            /\ i < j
            /\ locals.chunks[i].title = "Title"
            /\ locals.chunks[j].title = Null

\* C22: in the page list of a chunking run the page at 0-based position i has
\* id = i + 1: the ids count from 1, without gap or repetition, through all
\* the chapters of the run.
C22_PageIds ==
    \A i \in 1..Len(locals.chunks) : locals.chunks[i].id = i

\* a run over two chapters has returned four pages or more, pages of both
C22_Witness ==
    /\ pc = "done"
    /\ Len(locals.chunks) >= 4
    /\ locals.chunks[1].chapterIndex = 0
    /\ locals.chunks[Len(locals.chunks)].chapterIndex = 1
    /\ locals.chunks[Len(locals.chunks)].id = Len(locals.chunks)

(***************************************************************************)
(* Properties of the reader: density changes and loads.                    *)
(***************************************************************************)
\* no book is loaded: nothing was retained, no parser was made or no page is shown
NoBookLoaded == originalChapters = NoChapters \/ parser = Null \/ textChunks = <<>>

\* C23: changeTextDensity with a key other than less, medium and more, or with
\* no book loaded, changes nothing: the page list, the ChapterIndex,
\* currentIndex, the density, the persisted density and the persisted position
\* stay as they are.
C23_InvalidDensity ==
    [][\A d \in DensityKeys :
        ChangeTextDensity(d) /\ (d \notin Densities \/ NoBookLoaded)
            => UNCHANGED <<textChunks, chapterMetadata, currentIndex, currentDensity,
                           savedDensity, savedPosition>>]_vars

\* a book is shown at a density other than the default, past its first page:
\* a key that is no density would be refused here
C23_Witness ==
    /\ ~NoBookLoaded
    /\ currentDensity = "less"
    /\ savedDensity = "less"
    /\ currentIndex >= 1
    /\ ~isTransitioning

\* the pages loadEPUB gets from chunkText for the chapters of a file
PagesOnLoad(name) ==
    ParserChunkText(ChaptersOf(name),
                    GetChunkSizeForDensity(IF savedDensity \in Densities THEN savedDensity
                                           ELSE currentDensity)).chunks

\* a chapter in which there is text to read
HasText(chapter) == Detagged(ContentHtml(chapter.content)) # <<>>

\* C24: a chapter without extractable text contributes no page and the other
\* chapters are chunked all the same; the load fails only when the whole pass
\* gives no page, and then no empty page list is installed: the page list
\* shown before and the current index remain.
C24_ZeroPageEscalation ==
    [][\A name \in FileNames :
        LoadFinish(name) /\ Len(ChaptersOf(name)) > 0 =>
            /\ \A c \in 1..Len(ChaptersOf(name)) :
                    HasText(ChaptersOf(name)[c])
                        <=> PlacesOfChapter(PagesOnLoad(name), c - 1) # {}
            /\ IF PagesOnLoad(name) = <<>>
               THEN UNCHANGED <<textChunks, currentIndex>>
               ELSE textChunks' = PagesOnLoad(name)]_vars

\* the album is shown, its one page being of its second chapter, and a load of
\* the book without text has failed after it
C24_Witness ==
    /\ currentEpubIdentifier = "album.epub"
    /\ originalChapters = BlankChapters
    /\ Len(textChunks) = 1
    /\ textChunks[1].chapterIndex = 1
    /\ loading = {}

\* C25: a call of chunkText changes nothing outside the value it returns: the
\* page list shown, the current ChapterIndex, the cursor and the retained
\* chapters are after every step of the call what they were before it.
C25_ChunkerPurity ==
    [][UNCHANGED <<textChunks, chapterMetadata, currentIndex, originalChapters>>]_vars

(***************************************************************************)
(* Properties of the split of a block that is over the budget.             *)
(***************************************************************************)
\* the fragments the block at the head of allElements is split into
Fragments == SplitLongParagraph(Head(allElements), inMaxChunkSize)

\* C27: a block whose de-tagged length exceeds maxChunkSize is split by
\* packing whole sentences into fragments of at most maxChunkSize characters,
\* and by packing words only when the sentences gave one fragment that is
\* still over the budget; every fragment is wrapped in the tag of the block,
\* and a fragment is within maxChunkSize unless it is one single word longer
\* than the budget.
C27_SplitCascade ==
    [][SplitParagraphStep =>
        \A i \in 1..Len(Fragments) :
              /\ Fragments[i] = Wrap(Head(allElements).tag, StripTags(Fragments[i]))
              /\ \/ DetaggedLength(Fragments[i]) <= inMaxChunkSize
                 \/ ~HasSpace(Detagged(Fragments[i]))]_vars

(***************************************************************************)
(* Properties of the chapter-relative fallback of a density change.        *)
(***************************************************************************)
\* the number of pages of its chapter that come before the page at index
PositionInChapter(chunks, index) ==
    Cardinality({i \in PlacesOfChapter(chunks, chunks[index + 1].chapterIndex) : i < index + 1})

\* the number of pages of the chapter of the page at index
PagesInChapter(chunks, index) ==
    Cardinality(PlacesOfChapter(chunks, chunks[index + 1].chapterIndex))

\* a change to density d that goes ahead and whose snippet is in no new page (a
\* change that leaves both the pages and the index as they were has the reader
\* at the position asked for already: round(k / max(n - 1, 1) * (n - 1)) = k)
FallsBack(d) ==
    /\ <<textChunks, currentIndex>>' # <<textChunks, currentIndex>>
    /\ UNCHANGED <<originalChapters, parser, loading>>
    /\ ChangeTextDensity(d)
    /\ originalChapters # NoChapters /\ parser # Null /\ currentIndex < Len(textChunks)
    /\ textChunks' # <<>>
    /\ textChunks' = ParserChunkText(originalChapters, GetChunkSizeForDensity(d)).chunks
    /\ ExactMatchIndex(textChunks',
                       ExtractTextSnippet(textChunks[currentIndex + 1].text,
                                          SnippetMaxLength)) = -1

\* C28: when the exact-text anchor finds no page, the new current page is of
\* the same source chapter as the old one, and its position among the n' new
\* pages of that chapter is round(k / max(n - 1, 1) * (n' - 1)), k being the
\* position of the old page among the n old pages of the chapter.
C28_IntraChapterFallback ==
    [][\A d \in Densities : FallsBack(d) =>
        /\ textChunks'[currentIndex' + 1].chapterIndex
             = textChunks[currentIndex + 1].chapterIndex
        /\ PositionInChapter(textChunks', currentIndex')
             = RoundRatio(PositionInChapter(textChunks, currentIndex),
                          IF PagesInChapter(textChunks, currentIndex) - 1 > 1
                          THEN PagesInChapter(textChunks, currentIndex) - 1 ELSE 1,
                          PagesInChapter(textChunks', currentIndex') - 1)]_vars

\* the second medium page of the essay has its snippet in none of the pages at
\* less, where its chapter has another number of pages, and the reader is on
\* the page of that chapter the fallback works out for it
C28_Witness ==
    /\ currentEpubIdentifier = "essay.html"
    /\ currentDensity = "less"
    /\ currentIndex = 2
    /\ textChunks = ParserChunkText(EssayChapters, GetChunkSizeForDensity("less")).chunks
    /\ LET old == ParserChunkText(EssayChapters, GetChunkSizeForDensity("medium")).chunks
       IN /\ ExactMatchIndex(textChunks,
                             ExtractTextSnippet(old[2].text, SnippetMaxLength)) = -1
          /\ PositionInChapter(old, 1) = 1
          /\ PagesInChapter(old, 1) # PagesInChapter(textChunks, 2)
          /\ ChapterRelativeIndex(old, 1, textChunks) = 2

(***************************************************************************)
(* EPUBParser.extractText: the sections of the spine, the markup           *)
(* extractFormattedText writes for the body of each, and the chapter       *)
(* pushed for it.  A DOM node is [tagName, class, style, href,             *)
(* textContent, childNodes]; a text node has tagName "#text" and its text  *)
(* in textContent, an attribute that is absent is the empty string.        *)
(***************************************************************************)
Text(t) ==
    [tagName |-> "#text", class |-> <<>>, style |-> <<>>, href |-> <<>>,
     textContent |-> t, childNodes |-> <<>>]
ElementWith(tagName, class, style, href, childNodes) ==
    [tagName |-> tagName, class |-> class, style |-> style, href |-> href,
     textContent |-> <<>>, childNodes |-> childNodes]
Element(tagName, childNodes) == ElementWith(tagName, <<>>, <<>>, <<>>, childNodes)

Headings == {"h1", "h2", "h3", "h4", "h5", "h6"}
\* the elements extractFormattedText skips
Unwanted == {"script", "style", "nav", "header", "footer"}

\* element.querySelectorAll(tags).length
RECURSIVE CountAll(_, _)
RECURSIVE CountIn(_, _)
CountIn(nodes, tags) ==
    IF nodes = <<>> THEN 0
    ELSE (IF nodes[1].tagName \in tags THEN 1 ELSE 0)
         + CountAll(nodes[1], tags) + CountIn(Tail(nodes), tags)
CountAll(element, tags) == CountIn(element.childNodes, tags)

\* doc.querySelectorAll('script, style').forEach(el => el.remove())
RECURSIVE RemoveAll(_, _)
RemoveAll(element, tags) ==
    LET kept == SelectSeq(element.childNodes, LAMBDA child : child.tagName \notin tags)
    IN [element EXCEPT !.childNodes = [i \in 1..Len(kept) |-> RemoveAll(kept[i], tags)]]

\* class="..." or nothing, style="..." or nothing
ClassAttr(element) ==
    IF element.class = <<>> THEN <<>>
    ELSE CatAll(<<Lit(<<"c", "l", "a", "s", "s", "=", DQuote>>), element.class,
                  Lit(<<DQuote>>)>>)
StyleAttr(element) ==
    IF element.style = <<>> THEN <<>>
    ELSE CatAll(<<Lit(<<"s", "t", "y", "l", "e", "=", DQuote>>), element.style,
                  Lit(<<DQuote>>)>>)

\* `<${tagName} ${classAttr} ${style ? `style="${style}"` : ''}>${content}</${tagName}>`
WrapWith(element, content) ==
    CatAll(<<Lit(<<"<">>), TagName(element.tagName), Lit(<<" ">>), ClassAttr(element),
             Lit(<<" ">>), StyleAttr(element), Lit(<<">">>), content,
             CloseTag(element.tagName)>>)

\* `<a href="${href}">${linkContent}</a>`
WrapLink(element, content) ==
    CatAll(<<Lit(<<"<", "a", " ", "h", "r", "e", "f", "=", DQuote>>), element.href,
             Lit(<<DQuote, ">">>), content, CloseTag("a")>>)

\* paragraphContent after the text group still open was closed as a paragraph
Finalize(group) ==
    IF Trim(group.currentTextGroup) = <<>> THEN group
    ELSE [paragraphContent |-> Cat(group.paragraphContent,
                                   Wrap("p", Trim(group.currentTextGroup))),
          currentTextGroup |-> <<>>]

RECURSIVE ExtractFormattedText(_)
RECURSIVE ChildMarkup(_)
RECURSIVE ProcessDivChildren(_, _)

\* processDivChildren: the children of a div that holds no block element
ProcessDivChildren(childNodes, group) ==
    IF childNodes = <<>> THEN group
    ELSE LET childNode == childNodes[1]
             text == Trim(childNode.textContent)
             closed == Finalize(group)
             next ==
               IF childNode.tagName = "#text"
               THEN IF text = <<>> THEN group
                    ELSE [group EXCEPT !.currentTextGroup =
                            CatAll(<<@, IF @ = <<>> THEN <<>> ELSE Lit(<<" ">>), text>>)]
               ELSE IF childNode.tagName \in {"br", "p", "div"} \cup Headings
               THEN [closed EXCEPT !.paragraphContent =
                       Cat(@, IF childNode.tagName = "br" THEN OpenTag("br")
                              ELSE ExtractFormattedText(childNode))]
               ELSE [group EXCEPT !.currentTextGroup =
                       Cat(@, ExtractFormattedText(childNode))]
         IN ProcessDivChildren(Tail(childNodes), next)

\* what extractFormattedText adds to html for one child
ChildMarkup(child) ==
    LET tagName == child.tagName
        inner == ExtractFormattedText(child)
        hasBlockElements ==
            CountAll(child, {"p", "div", "section", "article"} \cup Headings) > 0
        paragraphContent ==
            Finalize(ProcessDivChildren(child.childNodes,
                                        [paragraphContent |-> <<>>,
                                         currentTextGroup |-> <<>>])).paragraphContent
    IN IF tagName = "#text"
       THEN IF Trim(child.textContent) = <<>> THEN <<>>
            ELSE Cat(Trim(child.textContent), Lit(<<" ">>))
       ELSE IF tagName \in Unwanted THEN <<>>
       ELSE IF tagName = "p" \/ tagName \in Headings
       THEN IF Trim(inner) = <<>> THEN <<>> ELSE WrapWith(child, Trim(inner))
       ELSE IF tagName = "br" THEN OpenTag("br")
       ELSE IF tagName = "div"
       THEN IF hasBlockElements
            THEN IF Trim(inner) = <<>> THEN <<>> ELSE WrapWith(child, Trim(inner))
            ELSE IF Trim(paragraphContent) = <<>> THEN <<>>
                 ELSE WrapWith(child, paragraphContent)
       ELSE IF tagName \in {"em", "i"} THEN Wrap("em", inner)
       ELSE IF tagName \in {"strong", "b"} THEN Wrap("strong", inner)
       ELSE IF tagName = "span"
       THEN IF child.style # <<>> \/ child.class # <<>> THEN WrapWith(child, inner)
            ELSE inner
       ELSE IF tagName = "a"
       THEN IF child.href # <<>> THEN WrapLink(child, inner) ELSE inner
       ELSE IF tagName \in {"small", "sub", "sup", "u", "mark"} THEN Wrap(tagName, inner)
       ELSE IF tagName \in {"section", "article", "main"} THEN inner
       ELSE IF Trim(inner) = <<>> THEN <<>> ELSE inner

\* extractFormattedText
ExtractFormattedText(element) ==
    CatAll([i \in 1..Len(element.childNodes) |-> ChildMarkup(element.childNodes[i])])

\* c.toLowerCase() for one character, and s.toLowerCase()
ToLower(c) ==
    LET upper == <<"A", "B", "C", "D", "E", "F", "G", "H", "I", "J", "K", "L", "M",
                   "N", "O", "P", "Q", "R", "S", "T", "U", "V", "W", "X", "Y", "Z">>
        lower == <<"a", "b", "c", "d", "e", "f", "g", "h", "i", "j", "k", "l", "m",
                   "n", "o", "p", "q", "r", "s", "t", "u", "v", "w", "x", "y", "z">>
    IN IF \E k \in 1..26 : upper[k] = c
       THEN lower[CHOOSE k \in 1..26 : upper[k] = c]
       ELSE c
ToLowerCase(s) == Norm([k \in 1..Len(s) |-> Run(ToLower(s[k].c), s[k].n)])

\* the value of the digit c, -1 when c is no digit
DigitValue(c) ==
    LET digits == <<"0", "1", "2", "3", "4", "5", "6", "7", "8", "9">>
    IN IF \E k \in 1..10 : digits[k] = c
       THEN (CHOOSE k \in 1..10 : digits[k] = c) - 1 ELSE -1
IsDigit(c) == DigitValue(c) >= 0

\* parseInt of the digits that start at run i of s
RECURSIVE ParseInt(_, _, _)
ParseInt(s, i, acc) ==
    IF i > Len(s) \/ ~IsDigit(s[i].c) THEN acc
    ELSE LET RECURSIVE Times(_, _)
             Times(a, n) == IF n = 0 THEN a ELSE Times(10 * a + DigitValue(s[i].c), n - 1)
         IN ParseInt(s, i + 1, Times(acc, s[i].n))

\* the words the regular expressions and the classification look for
Phrase(word) ==
    CASE word = "chapter" -> Lit(<<"c", "h", "a", "p", "t", "e", "r">>)
      [] word = "ch" -> Lit(<<"c", "h">>)
      [] word = "contents" -> Lit(<<"c", "o", "n", "t", "e", "n", "t", "s">>)
      [] word = "table of contents" ->
           Lit(<<"t", "a", "b", "l", "e", " ", "o", "f", " ",
                 "c", "o", "n", "t", "e", "n", "t", "s">>)
      [] word = "toc" -> Lit(<<"t", "o", "c">>)
      [] word = "project gutenberg" ->
           Lit(<<"p", "r", "o", "j", "e", "c", "t", " ",
                 "g", "u", "t", "e", "n", "b", "e", "r", "g">>)
      [] word = "ebook" -> Lit(<<"e", "b", "o", "o", "k">>)
      [] word = "copyright" -> Lit(<<"c", "o", "p", "y", "r", "i", "g", "h", "t">>)
      [] word = "license" -> Lit(<<"l", "i", "c", "e", "n", "s", "e">>)
      [] word = "title" -> Lit(<<"t", "i", "t", "l", "e">>)
      [] word = "cover" -> Lit(<<"c", "o", "v", "e", "r">>)
      [] word = "header" -> Lit(<<"h", "e", "a", "d", "e", "r">>)

\* the run of s at which the digits of the first match of /chapter[_-]?(\d+)/i
\* start, 0 when there is no match
IdrefMatch(s) ==
    LET lower == ToLowerCase(s)
        DigitAt(j) == j <= Len(lower) /\ IsDigit(lower[j].c)
        SeparatorAt(j) == j <= Len(lower) /\ lower[j].c \in {"_", "-"} /\ lower[j].n = 1
        Matches(i) == /\ i + 7 <= Len(lower)
                      /\ lower[i].c = "c"
                      /\ SubSeq(lower, i + 1, i + 6) = Tail(Phrase("chapter"))
                      /\ \/ DigitAt(i + 7)
                         \/ SeparatorAt(i + 7) /\ DigitAt(i + 8)
        found == {i \in 1..Len(lower) : Matches(i)}
    IN IF found = {} THEN 0
       ELSE IF DigitAt(Min(found) + 7) THEN Min(found) + 7 ELSE Min(found) + 8

\* chapterNumberFromIdref as extractText works it out of item.idref
ChapterNumberFromIdref(idref) ==
    IF idref # <<>> /\ IdrefMatch(idref) # 0
    THEN ParseInt(idref, IdrefMatch(idref), 0)
    ELSE NoNumber

\* label.match(/^(chapter|ch)\s*\d+$/i)
MatchesChapterLabel(label) ==
    LET lower == ToLowerCase(label)
        RestIsNumber(i) ==
            /\ SkipWS(lower, i) <= Len(lower)
            /\ \A k \in SkipWS(lower, i)..Len(lower) : IsDigit(lower[k].c)
    IN \/ Len(lower) >= 7 /\ SubSeq(lower, 1, 7) = Phrase("chapter") /\ RestIsNumber(8)
       \/ Len(lower) >= 2 /\ SubSeq(lower, 1, 2) = Phrase("ch") /\ RestIsNumber(3)

\* item.href || item.idref
HrefOf(item) == IF item.href # <<>> THEN item.href ELSE item.idref

IsTableOfContents(textContent, body) ==
    LET textLower == ToLowerCase(textContent)
    IN \/ Includes(textLower, Phrase("contents"))
       \/ Includes(textLower, Phrase("table of contents"))
       \/ Includes(textLower, Phrase("toc"))
       \/ CountAll(body, {"a"}) > 10

IsFrontMatter(textContent, item) ==
    LET textLower == ToLowerCase(textContent)
        href == ToLowerCase(HrefOf(item))
        idref == ToLowerCase(item.idref)
    IN \/ Includes(textLower, Phrase("project gutenberg"))
       \/ Includes(textLower, Phrase("ebook"))
       \/ Includes(textLower, Phrase("copyright"))
       \/ Includes(textLower, Phrase("license"))
       \/ Includes(href, Phrase("title"))
       \/ Includes(href, Phrase("cover"))
       \/ Includes(href, Phrase("copyright"))
       \/ item.idref # <<>> /\ (Includes(idref, Phrase("cover")) \/ Includes(idref, Phrase("header")))

\* the chapters after the section of item was read: nothing is pushed for a
\* section without text, a chapter without title and number for a table of
\* contents or front matter, and a chapter with the label the book gives it
\* (unless that is chapter and a number) and the number of its idref otherwise
PushSection(chapters, item) ==
    LET body == RemoveAll(item.body, {"script", "style"})
        textContent == ExtractFormattedText(body)
        title == IF Trim(item.label) # <<>> /\ ~MatchesChapterLabel(item.label)
                 THEN item.label ELSE Null
    IN IF Trim(textContent) = <<>> THEN chapters
       ELSE IF IsTableOfContents(textContent, body) \/ IsFrontMatter(textContent, item)
       THEN Append(chapters, [title |-> Null, content |-> textContent, isMetadata |-> TRUE,
                              chapterNumberFromIdref |-> NoNumber])
       ELSE Append(chapters, [title |-> title, content |-> textContent,
                              isMetadata |-> FALSE,
                              chapterNumberFromIdref |-> ChapterNumberFromIdref(item.idref)])

\* the longest spine read
MaxSpine == 2

Item(href, idref, label, childNodes) ==
    [href |-> href, idref |-> idref, label |-> label, body |-> Element("body", childNodes)]

\* sections that differ in what the classification looks at (the text, the
\* path, the identifier, the label and the number of links) and sections
\* that differ in the elements of their body
Items ==
    LET once == Lit(<<"O", "n", "c", "e", ".">>)
        menu == Lit(<<"M", "e", "n", "u">>)
        dawn == Lit(<<"D", "a", "w", "n">>)
        paragraph == Element("p", <<Text(once)>>)
        link == ElementWith("a", <<>>, <<>>, Lit(<<"n">>), <<Text(Lit(<<"x">>))>>)
    IN {Item(Lit(<<"s", "1">>), Lit(<<"c", "h", "a", "p", "t", "e", "r", "1">>),
             Lit(<<"C", "h", "a", "p", "t", "e", "r", " ", "1">>), <<paragraph>>),
        Item(Lit(<<"s", "2">>), Lit(<<"C", "h", "a", "p", "t", "e", "r", "_", "1", "2">>),
             dawn, <<paragraph>>),
        Item(Lit(<<"s", "3">>), Lit(<<"i", "3">>), <<>>,
             <<Element("h1", <<Text(Lit(<<"C", "o", "n", "t", "e", "n", "t", "s">>))>>)>>),
        Item(Phrase("cover"), Lit(<<"c", "h", "a", "p", "t", "e", "r", "-", "2">>),
             dawn, <<paragraph>>),
        Item(Lit(<<"s", "4">>), Phrase("title"), dawn, <<paragraph>>),
        Item(Phrase("header"), Lit(<<"i", "5">>), dawn, <<paragraph>>),
        Item(Lit(<<"s", "6">>), Phrase("header"), dawn, <<paragraph>>),
        Item(Lit(<<"s", "7">>), Lit(<<"i", "7">>), dawn,
             <<Element("p", [i \in 1..10 |-> link])>>),
        Item(Lit(<<"s", "8">>), Lit(<<"i", "8">>), dawn,
             <<Element("p", [i \in 1..11 |-> link])>>),
        Item(Lit(<<"s", "9">>), Lit(<<"i", "9">>), dawn,
             <<ElementWith("p", Phrase("license"), <<>>, <<>>, <<Text(once)>>)>>),
        Item(Lit(<<"s", "0">>), Lit(<<"i", "0">>), dawn, <<Text(Lit(<<" ", "\n">>))>>),
        Item(Lit(<<"m", "1">>), Lit(<<"j", "1">>), dawn,
             <<Element("nav", <<Text(menu)>>), paragraph>>),
        Item(Lit(<<"m", "2">>), Lit(<<"j", "2">>), dawn,
             <<Element("div", <<Element("nav", <<Text(menu)>>), Text(once)>>)>>),
        Item(Lit(<<"m", "3">>), Lit(<<"j", "3">>), dawn,
             <<Element("div", <<Element("script", <<Text(menu)>>), Text(once),
                                Element("br", <<>>), Element("i", <<Text(dawn)>>)>>)>>),
        Item(Lit(<<"m", "4">>), Lit(<<"j", "4">>), dawn,
             <<Element("p", <<Text(once), Element("small", <<Text(dawn)>>)>>)>>),
        Item(Lit(<<"m", "5">>), Lit(<<"j", "5">>), dawn,
             <<Element("h2", <<Text(dawn)>>),
               Element("div", <<Element("p", <<Element("em", <<Text(once)>>),
                                               Element("b", <<Text(dawn)>>)>>),
                                Element("footer", <<Text(menu)>>)>>),
               Element("section",
                       <<ElementWith("span", Lit(<<"b", "i", "g">>), <<>>, <<>>,
                                     <<Text(once)>>),
                         Element("span", <<Text(dawn)>>),
                         Element("td", <<Text(once)>>),
                         Element("a", <<Text(dawn)>>)>>)>>)}

Spines == SeqsOver(Items, 1, MaxSpine)

\* one turn of the loop of extractText: the next section of the spine is read
LoadSection ==
    /\ spineItems # <<>>
    /\ extracted' = PushSection(extracted, Head(spineItems))
    /\ spineItems' = Tail(spineItems)
    /\ UNCHANGED <<chunkerVars, chapterMetadata, readerVars>>

ExtractInit ==
    /\ spineItems \in Spines
    /\ extracted = <<>>
    /\ inChapters = <<>>
    /\ inMaxChunkSize = 500
    /\ locals = NewChunker
    /\ allElements = <<>>
    /\ pc = "idle"
    /\ returned = <<>>
    /\ ReaderInit

ExtractNext == LoadSection

ExtractSpec == ExtractInit /\ [][ExtractNext]_vars

(***************************************************************************)
(* Properties of the sections extractText reads.                           *)
(***************************************************************************)
\* the names of the tags, opening and closing, that stand in a markup string
TagsIn(html) ==
    {LET from == IF i + 1 <= Len(html) /\ html[i + 1].c = "/" THEN i + 2 ELSE i + 1
         to == FirstIn(html, from, {k \in 1..Len(html) : html[k].c \in {" ", ">"}})
     IN SubSeq(html, from, to - 1) : i \in {k \in 1..Len(html) : html[k].c = "<"}}

\* the tags the normalized markup may use
Vocabulary ==
    {TagName(t) : t \in {"p", "br", "em", "strong", "span", "a", "div"} \cup Headings}

\* C26: the markup extractFormattedText writes for a section holds only the
\* tags p, br, h1 to h6, em, strong, span, a and div; any other element of the
\* input gives at most its text, never its own tag.
C26_TagVocabulary ==
    \A i \in 1..Len(extracted) : TagsIn(extracted[i].content) \subseteq Vocabulary

\* the text a reader sees of a section: its markup without the tags, lower-cased
VisibleText(item) ==
    ToLowerCase(StripTags(ExtractFormattedText(RemoveAll(item.body, {"script", "style"}))))

\* a section the classification rule takes for metadata: its text holds one
\* of the phrases, its path or its identifier holds one of the markers, or it
\* holds more than 10 links
RuledMetadata(item) ==
    \/ \E phrase \in {"contents", "table of contents", "toc", "project gutenberg",
                      "ebook", "copyright", "license"} :
          Includes(VisibleText(item), Phrase(phrase))
    \/ \E marker \in {"cover", "title", "copyright", "header"} :
          \/ Includes(ToLowerCase(item.href), Phrase(marker))
          \/ Includes(ToLowerCase(item.idref), Phrase(marker))
    \/ CountAll(item.body, {"a"}) > 10

\* C29: a section with text is pushed as metadata exactly when its lower-cased
\* text holds one of the front-matter or contents phrases, or its path or
\* identifier holds cover, title, copyright or header, or it holds more than
\* 10 links; a metadata chapter has no title and no chapter number, whatever
\* its identifier, and a section with exactly 10 links and no other trigger
\* is content.
C29_MetadataClassification ==
    [][LoadSection /\ Len(extracted') > Len(extracted) =>
        LET chapter == extracted'[Len(extracted')]
        IN /\ chapter.isMetadata = RuledMetadata(Head(spineItems))
           /\ chapter.isMetadata =>
                chapter.title = Null /\ chapter.chapterNumberFromIdref = NoNumber]_vars

\* the texts that lie inside an unwanted element of a tree
RECURSIVE TextsInside(_, _)
TextsInside(element, unwanted) ==
    UNION {LET child == element.childNodes[i]
               inside == unwanted \/ child.tagName \in Unwanted
           IN IF child.tagName = "#text"
              THEN IF inside /\ Trim(child.textContent) # <<>>
                   THEN {Trim(child.textContent)} ELSE {}
              ELSE TextsInside(child, inside) : i \in 1..Len(element.childNodes)}

\* C30: no text that lies inside a script, style, nav, header or footer
\* element of a section appears in the markup written for the section,
\* wherever the element stands in the tree, a div with only text and inline
\* children included.
C30_UnwantedDropped ==
    [][LoadSection /\ Len(extracted') > Len(extracted) =>
        \A text \in TextsInside(Head(spineItems).body, FALSE) :
            ~Includes(extracted'[Len(extracted')].content, text)]_vars

(***************************************************************************)
(* Properties of the persisted reading position.                           *)
(***************************************************************************)
\* C31: whenever a book is loaded and the page list is not empty, the
\* persisted reading position is the identifier of the loaded book with
\* currentIndex, after a load, a step to the next or previous page, a page
\* jump, a density change and a rejected request alike.
C31_BookmarkTracksCursor ==
    (currentEpubIdentifier # Null /\ textChunks # <<>>)
        => savedPosition = [epubIdentifier |-> currentEpubIdentifier,
                            pageIndex |-> currentIndex]

\* the novel is loaded, the reader has left its first page and the density it
\* was loaded at, and the persisted position names the page the reader is on
C31_Witness ==
    /\ currentEpubIdentifier = "novel.epub"
    /\ textChunks # <<>>
    /\ currentIndex > 0
    /\ currentDensity # "medium"
    /\ savedPosition = [epubIdentifier |-> "novel.epub", pageIndex |-> currentIndex]

\* the load of a file ends and its pages are shown
LoadSucceeds(name) ==
    /\ LoadFinish(name)
    /\ ChaptersOf(name) # <<>>
    /\ PagesOnLoad(name) # <<>>

LoadFails(name) ==
    \/ LoadStart(name) /\ KindOf(name) = "other"
    \/ LoadFinish(name) /\ (ChaptersOf(name) = <<>> \/ PagesOnLoad(name) = <<>>)

\* C33: a load attempt that fails leaves the page list, currentIndex, the
\* chapter index, the chapters retained for re-chunking, the identifier of
\* the loaded book and the persisted position as they were before it.
C33_FailedLoadUntouched ==
    [][\A name \in FileNames : LoadFails(name) =>
        UNCHANGED <<textChunks, currentIndex, chapterMetadata, originalChapters,
                    currentEpubIdentifier, savedPosition>>]_vars

\* the pages, the retained chapters, the chapter index, the identifier and
\* the persisted position are all those of the file name
BelongsTo(name) ==
    LET result == ParserChunkText(ChaptersOf(name), GetChunkSizeForDensity(currentDensity))
    IN /\ currentEpubIdentifier = CreateEpubIdentifier(name)
       /\ savedPosition.epubIdentifier = CreateEpubIdentifier(name)
       /\ originalChapters = ChaptersOf(name)
       /\ textChunks = result.chunks
       /\ chapterMetadata = result.chapterMetadata

\* C34: however the loads that were started overlap, once pages are shown the
\* page list, the retained chapters, the chapter index, the identifier of the
\* loaded book and the persisted position belong to one and the same book; no
\* interleaving mixes the pages of one book with the chapters of another.
C34_OverlappingLoads ==
    textChunks # <<>> => \E name \in FileNames : BelongsTo(name)

(***************************************************************************)
(* Properties of a density change that meets a transition.                 *)
(***************************************************************************)
\* a change to density d, asked for while a transition is in flight, that
\* finds a book, a current page and pages at the new density
ChangesInTransition(d) ==
    /\ isTransitioning
    /\ ChangeTextDensity(d)
    /\ originalChapters # NoChapters /\ parser # Null /\ currentIndex < Len(textChunks)
    /\ ParserChunkText(originalChapters, GetChunkSizeForDensity(d)).chunks # <<>>

\* C35: a valid density change that arrives while a transition is in flight
\* is applied at once, pages and density replaced and the index inside the
\* new pages, and the timer of the transition, when it fires later, clears
\* isTransitioning and changes neither currentIndex nor the page list.
C35_DensityChangeInTransition ==
    [][/\ \A d \in Densities : ChangesInTransition(d) =>
             /\ textChunks' = ParserChunkText(originalChapters,
                                              GetChunkSizeForDensity(d)).chunks
             /\ currentDensity' = d
             /\ currentIndex' \in 0..(Len(textChunks') - 1)
       /\ transitionTimers' < transitionTimers =>
             /\ ~isTransitioning'
             /\ UNCHANGED <<currentIndex, textChunks>>]_vars

\* the essay was changed to less while the step to its second page was still
\* in flight: the reader is on the page the remap chose, the timer is pending
C35_Witness ==
    /\ currentEpubIdentifier = "essay.html"
    /\ isTransitioning
    /\ transitionTimers = 1
    /\ currentDensity = "less"
    /\ currentIndex = 2

C37_ChapterNumbersUnique ==
    \A i, j \in 1..Len(locals.chapterInfo) :
        i # j => locals.chapterInfo[i].chapterNumber # locals.chapterInfo[j].chapterNumber

\* a book is loaded and handleDoneReading is not between its start and its reset
ReadingLive == currentEpubIdentifier # Null /\ doneReading = "idle"

\* C38: while a book is loaded and no Done-Reading submission is in progress,
\* at most one density timer is running, and once a page view has been
\* recorded at the reader's current density the running timer is that of the
\* current density, also after a Done-Reading submission has reset the tracker.
C38_DensityTrackingLive ==
    ReadingLive =>
        /\ Cardinality(analyticsTracker.densityTimeTracking) <= 1
        /\ analyticsTracker.lastEntry = currentDensity
                => analyticsTracker.densityTimeTracking = {currentDensity}
====
